---- MODULE Spec2Model ----
(***************************************************************************)
(* The collision-driven game-state core of the Mario platformer            *)
(* (src/app.py, src/player.py): the per-tick step of MarioApp, the         *)
(* collision handlers it registers, the timed effects (invincibility,      *)
(* pressed switches, invisible bricks) and the entities' own reactions.    *)
(*                                                                         *)
(* The physics library (game.world, game.entity, game.block, game.mob,     *)
(* game.util) is not part of src/: the World's entity sets, the spatial    *)
(* query, the collision direction and DynamicEntity's health are modelled  *)
(* from the specification.  Which contacts the physics engine reports in a *)
(* tick, and from which direction, is an input of the model.               *)
(***************************************************************************)
EXTENDS Integers, Sequences, FiniteSets, TLC

VARIABLES
    pc,              \* position of the tick callback: "idle", "collide" (inside world.step), "exited"
    blocks,          \* the world's active block set (block identities)
    mobs,            \* the world's mobs (names)
    items,           \* the world's items (names)
    pos,             \* position of every block identity, as set by World.add_block
    world_id,        \* which load of the world is the active one (0 = the first)
    invisible_list,  \* MarioApp.invisible_list: sequence of <<block, time>> records
    pressed_time,    \* Switch.pressed_time of the active world's switches
    tempo,           \* Mob tempo of the active world's mobs
    health,          \* Player health (DynamicEntity)
    score,           \* Player._score
    invincible_time, \* Player.invincible_time
    velocity,        \* the player's velocity <<vx, vy>>
    pause,           \* MarioApp._pause
    exit,            \* MarioApp._exit
    last_return,     \* what the last collision handler returned ("none" outside world.step)
    hidden_for,      \* history: non-paused ticks completed since a brick was made invisible
    tick_start,      \* history: the countdowns, items and blocks when the running world.step began
    level,           \* MarioApp._level: the name of the active level
    stale_use,       \* history: mobs removed again, or called, after their removal from the world
    on_tunnel,       \* Player._on_tunnel
    tunnel,          \* Player.tunnel: the set of the tunnel block referred to (empty for None)
    touching,        \* the tunnel blocks whose contact with the player has begun and not ended
    config_file,     \* the configuration file chosen at start: does it exist, and its lines
    config_error,    \* what MarioApp.configuration_error was called with ("none" if it was not)
    dialogs          \* the kinds of pausing window (tk.Toplevel) that are open

vars == <<pc, blocks, mobs, items, pos, world_id, invisible_list, pressed_time, tempo,
          health, score, invincible_time, velocity, pause, exit, last_return,
          hidden_for, tick_start, level, stale_use, on_tunnel, tunnel, touching,
          config_file, config_error, dialogs>>

tunnel_vars == <<on_tunnel, tunnel, touching>>
config_vars == <<config_file, config_error>>

(***************************************************************************)
(* Program constants.                                                      *)
(***************************************************************************)
BLOCK_SIZE == 16
INVISIBLE_RADIUS == 64
MARIO_VX == 100
MARIO_VY == -200
MUSHROOM_TEMPO == 100
MUSHROOM_KNOCK == 100
MUSHROOM_STOMP_VY == 400
BOUNCE_VY == -300

(***************************************************************************)
(* Bounds of the model.                                                    *)
(***************************************************************************)
\* The three countdowns of the source all start at 1000 ticks (Player.invincible,
\* Switch.set_pressed_time, the record appended by the switch trigger).  The model
\* runs them from CountdownTicks: the code only tests them against 0 and
\* decrements them by 1.
CountdownTicks == 2
\* "health" of the configuration file: the player's maximum and starting health.
ConfigHealth == 2
\* Contacts with mobs are followed while the player's health is above -MaxOverkill (the
\* player dies at 0, and the tick callback looks at that only when world.step returns).
MaxOverkill == 1
\* How many times the world is loaded again (restart after death, next level).
MaxLoads == 1
\* Contacts with the flag are followed while the player's health is less than MaxBonus
\* above the configured health.
MaxBonus == 1

INVINCIBLE_TIME == CountdownTicks
PRESSED_TIME == CountdownTicks
INVISIBLE_TIME == CountdownTicks

Directions == {"A", "B", "L", "R"}

(***************************************************************************)
(* The level grid: what load_world builds through create_block,            *)
(* create_item and create_mob.  Cells are <<column, row>>.                 *)
(***************************************************************************)
LevelBlocks ==
    [ S1 |-> [kind |-> "switch",     cell |-> <<0, 0>>],
      G1 |-> [kind |-> "brick_base", cell |-> <<1, 0>>],
      B1 |-> [kind |-> "brick",      cell |-> <<2, 0>>],
      B2 |-> [kind |-> "brick",      cell |-> <<3, 0>>],
      B3 |-> [kind |-> "brick",      cell |-> <<4, 0>>],
      S2 |-> [kind |-> "switch",     cell |-> <<8, 0>>],
      B4 |-> [kind |-> "brick",      cell |-> <<14, 0>>],
      F1 |-> [kind |-> "flag",       cell |-> <<20, 0>>],
      T1 |-> [kind |-> "tunnel",     cell |-> <<18, 0>>],
      BB |-> [kind |-> "bounce_block", cell |-> <<16, 0>>] ]

BlockNames == DOMAIN LevelBlocks
SwitchNames == {n \in BlockNames : LevelBlocks[n].kind = "switch"}

LevelMobs == [ M1 |-> "mushroom", M2 |-> "mushroom", FB1 |-> "fireball", FB2 |-> "fireball" ]
MobNames == DOMAIN LevelMobs
Mushrooms == {m \in MobNames : LevelMobs[m] = "mushroom"}
\* One mob of each kind.
MobSample == {"M1", "FB1"}

LevelItems == [ C1 |-> "coin", ST |-> "star" ]
ItemNames == DOMAIN LevelItems
Stars == {i \in ItemNames : LevelItems[i] = "star"}

\* A block object is identified by the world load that created it and its place in the grid.
BlockIds == (0..MaxLoads) \X BlockNames
get_id(b) == LevelBlocks[b[2]].kind
Bricks == {b \in BlockIds : get_id(b) = "brick"}

\* The blocks of the switch area: the switches, the bricks and the ground.
AreaBlocks == {b \in BlockIds : get_id(b) \in {"switch", "brick", "brick_base"}}
\* The flags.
FlagBlocks == {b \in BlockIds : get_id(b) = "flag"}
\* The goal blocks.
GoalBlocks == {b \in BlockIds : get_id(b) \in {"flag", "tunnel"}}
BrickBases == {b \in BlockIds : get_id(b) = "brick_base"}
\* The blocks around switch S1: the switch, the block next to it and its first two bricks.
S1Blocks == {b \in BlockIds : b[2] \in {"S1", "G1", "B1", "B2"}}

\* create_block: world.add_block(block, x * BLOCK_SIZE, y * BLOCK_SIZE)
create_block_pos(n) == <<LevelBlocks[n].cell[1] * BLOCK_SIZE, LevelBlocks[n].cell[2] * BLOCK_SIZE>>

(***************************************************************************)
(* The configuration text (MarioApp.config_file_content, read by           *)
(* load_config): one record per line, a '==<level>==' marker line or a     *)
(* 'key : value' declaration.  Every level file is built from the grid     *)
(* above.                                                                  *)
(***************************************************************************)
MarkerLine(lvl) == [marker |-> lvl, key |-> "", value |-> ""]
DeclLine(k, v) == [marker |-> "", key |-> k, value |-> v]

config_file_content ==
    << DeclLine("gravity", "400"),
       DeclLine("start", "level1"),
       DeclLine("x", "30"),
       DeclLine("y", "30"),
       DeclLine("mass", "100"),
       DeclLine("health", "5"),
       DeclLine("max_velocity", "500"),
       MarkerLine("level1"),
       DeclLine("goal", "level2"),
       DeclLine("tunnel", "bonus"),
       MarkerLine("bonus"),
       DeclLine("goal", "END"),
       DeclLine("tunnel", "level9"),
       MarkerLine("level2") >>

StartLevel == "level1"

\* The level files that open() finds.
LevelFiles == {"level1", "level2", "bonus"}

\* Mutant of now_level_line: the search for the declaration starts at the first line.
now_level_line_from_top(content, lvl) == 0

\* Goal.triger, first loop: the number of lines before the first line that contains
\* the marker of level lvl (the number of lines when no line does).
RECURSIVE now_level_line(_, _)
now_level_line(content, lvl) ==
    IF content = <<>> \/ Head(content).marker = lvl THEN 0
    ELSE 1 + now_level_line(Tail(content), lvl)

\* MarioApp.find_in_line_and_config: is the line a declaration of the key?
find_in_line_and_config(line_content, string_to_find) ==
    line_content.marker = "" /\ line_content.key = string_to_find

\* Goal.triger, second loop over config_file_content[now_level_line:]: the value of
\* the first declaration of trigger_id from the marker line on, if there is one.
RECURSIVE found_value(_, _)
found_value(lines, trigger_id) ==
    IF lines = <<>> THEN [found |-> FALSE, value |-> ""]
    ELSE IF find_in_line_and_config(Head(lines), trigger_id)
         THEN [found |-> TRUE, value |-> Head(lines).value]
    ELSE found_value(Tail(lines), trigger_id)

goal_lookup(content, lvl, trigger_id) ==
    found_value(SubSeq(content, now_level_line(content, lvl) + 1, Len(content)), trigger_id)

(***************************************************************************)
(* MarioApp.load_config: the keys it scans every line for, each with the   *)
(* type its value is converted with, and the keys check_config asks for.   *)
(***************************************************************************)
ConfigKeyOrder ==
    <<"gravity", "start", "character", "x", "y", "mass", "health", "max_velocity">>
ConfigTypes ==
    [gravity |-> "int", start |-> "str", character |-> "str", x |-> "int", y |-> "int",
     mass |-> "int", health |-> "int", max_velocity |-> "int"]
RequiredKeys == <<"gravity", "start", "x", "y", "mass", "health", "max_velocity", "start">>

\* The value texts of the model that int() converts; str() converts every text.
DecimalTexts == {"5", "7", "30", "100", "400", "500"}

\* val_type(text) of find_in_line_and_config: does the conversion succeed?
val_type_parses(val_type, text) == val_type = "str" \/ text \in DecimalTexts

\* The loop of load_config over the lines, each line offered to the eight
\* find_in_line_and_config calls (a line matches one key at most): the keys set in
\* self.configuration, and the error of the first conversion that fails.
RECURSIVE parse_lines(_, _)
parse_lines(lines, configuration) ==
    IF lines = <<>> THEN [error |-> "none", configuration |-> configuration]
    ELSE LET line_content == Head(lines)
             matched == {i \in DOMAIN ConfigKeyOrder :
                            find_in_line_and_config(line_content, ConfigKeyOrder[i])}
         IN  IF matched = {} THEN parse_lines(Tail(lines), configuration)
             ELSE IF val_type_parses(ConfigTypes[line_content.key], line_content.value)
                  THEN parse_lines(Tail(lines), configuration \cup {line_content.key})
             ELSE [error |-> "cannot be parsed", configuration |-> configuration]

\* Mutant of check_config: the health key is not asked for.
check_config_without_health(configuration) ==
    IF \E i \in DOMAIN RequiredKeys :
          RequiredKeys[i] # "health" /\ RequiredKeys[i] \notin configuration
    THEN "invalid" ELSE "none"

\* MarioApp.check_config on the keys of load_config
check_config(configuration) ==
    IF \E i \in DOMAIN RequiredKeys : RequiredKeys[i] \notin configuration
    THEN "invalid" ELSE "none"

\* MarioApp.load_config: what configuration_error is called with ("none" when it is
\* not called).
load_config(file) ==
    IF ~file.exists THEN "missing"
    ELSE LET parsed == parse_lines(file.lines, {}) IN
         IF parsed.error # "none" THEN parsed.error
         ELSE check_config(parsed.configuration)

\* The configuration files offered at start-up: the file may be missing, and each key
\* of load_config is not declared, declared with a decimal text or declared with
\* another text.
Declarations == {"absent", "decimal", "other"}
RECURSIVE lines_of(_, _)
lines_of(choice, i) ==
    IF i > Len(ConfigKeyOrder) THEN <<>>
    ELSE IF choice[i] = "absent" THEN lines_of(choice, i + 1)
    ELSE <<DeclLine(ConfigKeyOrder[i], IF choice[i] = "decimal" THEN "7" ELSE "abc")>>
         \o lines_of(choice, i + 1)
ConfigFiles ==
    {[exists |-> FALSE, lines |-> <<>>]}
    \cup {[exists |-> TRUE, lines |-> lines_of(choice, 1)] :
            choice \in [DOMAIN ConfigKeyOrder -> Declarations]}

(***************************************************************************)
(* The physics World (game.world), from the specification: add_* and       *)
(* remove_* change the set of simulated bodies at once, and                *)
(* get_things_in_range returns the entities whose bounding box meets the   *)
(* query circle.                                                           *)
(***************************************************************************)
add_block(wblocks, b) == wblocks \cup {b}
remove_block(wblocks, b) == wblocks \ {b}
remove_mob(wmobs, m) == wmobs \ {m}
remove_item(witems, i) == witems \ {i}

Abs(n) == IF n < 0 THEN 0 - n ELSE n
Max0(n) == IF n < 0 THEN 0 ELSE n

\* Does the one-cell box centred at p meet the circle of radius r around <<x, y>>?
box_in_range(p, x, y, r) ==
    LET dx == Max0(Abs(p[1] - x) - (BLOCK_SIZE \div 2))
        dy == Max0(Abs(p[2] - y) - (BLOCK_SIZE \div 2))
    IN  dx * dx + dy * dy <= r * r

\* The blocks of the world that get_things_in_range(x, y, r) returns.
blocks_in_range(wblocks, p, x, y, r) == {b \in wblocks : box_in_range(p[b], x, y, r)}

\* Every order in which a collection can be returned.
Orders(S) == {s \in [1..Cardinality(S) -> S] : \A i, j \in DOMAIN s : i # j => s[i] # s[j]}

\* A set as a sequence, in some fixed order.
RECURSIVE SetToSeq(_)
SetToSeq(S) == IF S = {} THEN <<>> ELSE LET x == CHOOSE y \in S : TRUE IN <<x>> \o SetToSeq(S \ {x})

\* get_things_in_range, as "things" <<category, entity>>: the blocks in range and the
\* mobs and items that are near.  Where mobs and items are is not modelled: all of them
\* are taken to be near.  The handler's outcome depends only on the order of the bricks
\* among the things, so the other things are put first.
things_in_range(near, brick_order, wblocks, p, x, y, r) ==
    LET others == {b \in blocks_in_range(wblocks, p, x, y, r) : get_id(b) # "brick"}
    IN  SetToSeq(near \cup {<<"block", b>> : b \in others})
        \o [i \in DOMAIN brick_order |-> <<"block", brick_order[i]>>]

\* get_collision_direction(a, b) seen from the other entity: get_collision_direction(b, a).
Opposite(dir) ==
    CASE dir = "A" -> "B" [] dir = "B" -> "A" [] dir = "L" -> "R" [] dir = "R" -> "L"

\* Entity.get_position
get_position(p, b) == p[b]

(***************************************************************************)
(* Timed effects of the entities.                                          *)
(***************************************************************************)
\* Player.is_invincible
is_invincible(t) == t > 0

\* Mutant of player_step: the countdown is decremented whether or not it is positive.
player_step_unguarded(t) == t - 1

\* Player.step: the invincibility countdown after one tick
player_step(t) == IF is_invincible(t) THEN t - 1 ELSE t

\* Switch.is_pressed
is_pressed(t) == t > 0

\* Switch.step: the pressed countdown after one tick
switch_step(t) == IF is_pressed(t) THEN t - 1 ELSE t

\* Mutant of switch_on_hit: the direction of the contact is not looked at.
switch_on_hit_any_direction(t, dir) ==
    IF ~is_pressed(t) THEN PRESSED_TIME ELSE t

\* Switch.on_hit: the pressed countdown after a contact of the player from direction dir
switch_on_hit(t, dir) ==
    IF dir = "A" /\ ~is_pressed(t) THEN PRESSED_TIME ELSE t

(***************************************************************************)
(* MarioApp.invisible_list.                                                *)
(***************************************************************************)
\* Python's `block not in self.invisible_list` compares the block with each
\* [block, time] list of the list by ==; a list object never equals a Block.
py_eq_record_block(rec, b) == FALSE
in_invisible_list(b, lst) == \E i \in DOMAIN lst : py_eq_record_block(lst[i], b)

\* The blocks that have a record in the list.
Recorded(lst) == {lst[i][1] : i \in DOMAIN lst}

\* list.remove(x): drop the first element equal to x.
RECURSIVE list_remove(_, _)
list_remove(lst, x) ==
    IF lst = <<>> THEN <<>>
    ELSE IF Head(lst) = x THEN Tail(lst)
    ELSE <<Head(lst)>> \o list_remove(Tail(lst), x)

\* Mutant of hide_bricks: the test of the block's kind is left out.
RECURSIVE hide_any_block(_, _, _, _)
hide_any_block(things, i, wblocks, lst) ==
    IF i > Len(things) THEN [blocks |-> wblocks, list |-> lst]
    ELSE IF things[i][1] = "block"
         THEN hide_any_block(things, i + 1, remove_block(wblocks, things[i][2]),
                             Append(lst, <<things[i][2], INVISIBLE_TIME>>))
         ELSE hide_any_block(things, i + 1, wblocks, lst)

\* The loop of the switch branch of _handle_player_collide_block over in_range_list:
\* every brick among the things leaves the world and gets a record.
RECURSIVE hide_bricks(_, _, _, _)
hide_bricks(things, i, wblocks, lst) ==
    IF i > Len(things) THEN [blocks |-> wblocks, list |-> lst]
    ELSE IF things[i][1] = "block" /\ get_id(things[i][2]) = "brick"
         THEN hide_bricks(things, i + 1, remove_block(wblocks, things[i][2]),
                          Append(lst, <<things[i][2], INVISIBLE_TIME>>))
         ELSE hide_bricks(things, i + 1, wblocks, lst)

\* MarioApp.invisble_step: `for invisible in self.invisible_list` walks the list by
\* index i while the body removes from that same list.
RECURSIVE invisble_loop(_, _, _, _)
invisble_loop(i, lst, wblocks, p) ==
    IF i > Len(lst) THEN [list |-> lst, blocks |-> wblocks, pos |-> p]
    ELSE LET invisible == <<lst[i][1], lst[i][2] - 1>>
             lst1 == [lst EXCEPT ![i] = invisible]
             invisible_block == invisible[1]
             invisible_time == invisible[2]
         IN  IF invisible_time <= 0
             THEN invisble_loop(i + 1, list_remove(lst1, invisible),
                                add_block(wblocks, invisible_block),
                                [p EXCEPT ![invisible_block] =
                                    <<get_position(p, invisible_block)[1],
                                      get_position(p, invisible_block)[2]>>])
             ELSE invisble_loop(i + 1, lst1, wblocks, p)

\* Mutant of invisble_step: an expired record is put back into the world but its
\* record is not removed from the list.
RECURSIVE invisble_loop_keeps_record(_, _, _, _)
invisble_loop_keeps_record(i, lst, wblocks, p) ==
    IF i > Len(lst) THEN [list |-> lst, blocks |-> wblocks, pos |-> p]
    ELSE LET invisible == <<lst[i][1], lst[i][2] - 1>>
             lst1 == [lst EXCEPT ![i] = invisible]
         IN  IF invisible[2] <= 0
             THEN invisble_loop_keeps_record(i + 1, lst1, add_block(wblocks, invisible[1]), p)
             ELSE invisble_loop_keeps_record(i + 1, lst1, wblocks, p)

invisble_step_keeps_record(lst, wblocks, p) == invisble_loop_keeps_record(1, lst, wblocks, p)

\* Mutant of invisble_step: an expired block is put back with its coordinates swapped.
RECURSIVE invisble_loop_swapped(_, _, _, _)
invisble_loop_swapped(i, lst, wblocks, p) ==
    IF i > Len(lst) THEN [list |-> lst, blocks |-> wblocks, pos |-> p]
    ELSE LET invisible == <<lst[i][1], lst[i][2] - 1>>
             lst1 == [lst EXCEPT ![i] = invisible]
         IN  IF invisible[2] <= 0
             THEN invisble_loop_swapped(i + 1, list_remove(lst1, invisible),
                                        add_block(wblocks, invisible[1]),
                                        [p EXCEPT ![invisible[1]] =
                                            <<get_position(p, invisible[1])[2],
                                              get_position(p, invisible[1])[1]>>])
             ELSE invisble_loop_swapped(i + 1, lst1, wblocks, p)

invisble_step_swapped(lst, wblocks, p) == invisble_loop_swapped(1, lst, wblocks, p)

invisble_step(lst, wblocks, p) == invisble_loop(1, lst, wblocks, p)

(***************************************************************************)
(* The player (src/player.py) and the mushroom.                            *)
(***************************************************************************)
\* Mutant of change_health: the change is applied whether or not the player is invincible.
change_health_unguarded(h, t, change) == h + change

\* Player.change_health: a loss is dropped while the player is invincible.
\* DynamicEntity.change_health adds the change.
change_health(h, t, change) ==
    IF ~(is_invincible(t) /\ change < 0) THEN h + change ELSE h

\* DynamicEntity.is_dead
is_dead(h) == h <= 0

\* Mutant of mushroom_collide: the mushroom turns whatever the direction.
mushroom_collide_any_direction(tp, dir) == 0 - tp

\* Mushroom.collide: the tempo after a contact from direction dir
mushroom_collide(tp, dir) == IF dir = "R" \/ dir = "L" THEN 0 - tp ELSE tp

\* Mushroom.on_hit, for the player's velocity: bounced back on a contact that is
\* not from above, sent off with vertical velocity 400 on a landing.
mushroom_on_hit_velocity(v, dir) ==
    IF dir # "A"
    THEN IF v[1] > 0 THEN <<0 - MUSHROOM_KNOCK, v[2]>> ELSE <<MUSHROOM_KNOCK, v[2]>>
    ELSE <<v[1], MUSHROOM_STOMP_VY>>

(***************************************************************************)
(* Initial state: MarioApp.__init__ (status_var_config, a new Player,      *)
(* reset_world of the start level).                                        *)
(***************************************************************************)
LoadedBlocks(w) == {<<w, n>> : n \in BlockNames}

\* The value of tick_start outside world.step: nothing was recorded.
NoTick == [invincible_time |-> 0, pressed_time |-> [n \in SwitchNames |-> 0],
           items |-> {}, blocks |-> {}]

Init ==
    /\ pc = "idle"
    /\ world_id = 0
    /\ blocks = LoadedBlocks(0)
    /\ mobs = MobNames
    /\ items = ItemNames
    /\ pos = [b \in BlockIds |-> create_block_pos(b[2])]
    /\ invisible_list = <<>>
    /\ pressed_time = [n \in SwitchNames |-> 0]
    /\ tempo = [m \in Mushrooms |-> MUSHROOM_TEMPO]
    /\ health = ConfigHealth
    /\ score = 0
    /\ invincible_time = 0
    /\ velocity = <<0, 0>>
    /\ pause = FALSE
    /\ dialogs = {}
    /\ exit = FALSE
    /\ last_return = "none"
    /\ hidden_for = [b \in Bricks |-> 0]
    /\ tick_start = NoTick
    /\ level = StartLevel
    /\ stale_use = {}
    /\ on_tunnel = FALSE
    /\ tunnel = {}
    /\ touching = {}
    /\ config_file = [exists |-> TRUE, lines |-> config_file_content]
    /\ config_error = "none"

(***************************************************************************)
(* Collision handlers: called by the physics engine inside world.step.     *)
(***************************************************************************)
InWorldStep == pc = "collide"

\* MarioApp.reset_world, called by load_level inside a collision handler: a new World
\* is built from the level file and becomes the active world while the step of the
\* replaced world is still running (pc = "loaded": the contacts that the replaced
\* world reports after that are not followed).  The player, the invisible-block list
\* and the commands' flags are kept.
reset_world(new_level) ==
    /\ world_id < MaxLoads
    /\ world_id' = world_id + 1
    /\ level' = new_level
    /\ blocks' = LoadedBlocks(world_id + 1)
    /\ pos' = [k \in BlockIds |-> IF k[1] = world_id + 1 THEN create_block_pos(k[2]) ELSE pos[k]]
    /\ mobs' = MobNames
    /\ items' = ItemNames
    /\ pressed_time' = [n \in SwitchNames |-> 0]
    /\ tempo' = [m \in Mushrooms |-> MUSHROOM_TEMPO]
    /\ touching' = {}
    /\ pc' = IF pc = "collide" THEN "loaded" ELSE pc

\* Mutant of Goal_triger: the high-score prompt is not asked for.
Goal_triger_no_prompt(own_id, trigger_id) ==
    LET lookup == goal_lookup(config_file.lines, level,
                              IF trigger_id = "" THEN own_id ELSE trigger_id) IN
    /\ pause' = pause
    /\ dialogs' = dialogs
    /\ IF ~lookup.found \/ lookup.value = "END" \/ lookup.value \notin LevelFiles
       THEN /\ exit' = TRUE
            /\ UNCHANGED <<pc, blocks, mobs, items, pos, world_id, pressed_time, tempo, level,
                           touching>>
       ELSE /\ reset_world(lookup.value)
            /\ UNCHANGED exit

\* Mutant of Goal_triger: the level name is set before the level file is opened.
Goal_triger_level_first(own_id, trigger_id) ==
    LET lookup == goal_lookup(config_file.lines, level,
                              IF trigger_id = "" THEN own_id ELSE trigger_id) IN
    /\ pause' = TRUE
    /\ dialogs' = dialogs \cup {"prompt"}
    /\ IF ~lookup.found \/ lookup.value = "END" \/ lookup.value \notin LevelFiles
       THEN /\ exit' = TRUE
            /\ level' = IF lookup.found /\ lookup.value # "END" THEN lookup.value ELSE level
            /\ UNCHANGED <<pc, blocks, mobs, items, pos, world_id, pressed_time, tempo,
                           touching>>
       ELSE /\ reset_world(lookup.value)
            /\ UNCHANGED exit

\* Mutant of Goal_triger: the trigger key is ignored and the goal's own kind looked up.
Goal_triger_own_kind(own_id, trigger_id) ==
    LET lookup == goal_lookup(config_file.lines, level, own_id) IN
    /\ pause' = TRUE
    /\ dialogs' = dialogs \cup {"prompt"}
    /\ IF ~lookup.found \/ lookup.value = "END" \/ lookup.value \notin LevelFiles
       THEN /\ exit' = TRUE
            /\ UNCHANGED <<pc, blocks, mobs, items, pos, world_id, pressed_time, tempo, level,
                           touching>>
       ELSE /\ reset_world(lookup.value)
            /\ UNCHANGED exit

\* Goal.triger(app, trigger_id) of a goal block of kind own_id: write_highscore pauses
\* the game and opens the prompt; then exit() when no declaration is found,
\* load_level(configuration[trigger_id], resetplayer = False) otherwise ("END" and a
\* level file that cannot be opened end in exit() as well).
Goal_triger(own_id, trigger_id) ==
    LET lookup == goal_lookup(config_file.lines, level,
                              IF trigger_id = "" THEN own_id ELSE trigger_id) IN
    /\ pause' = TRUE
    /\ dialogs' = dialogs \cup {"prompt"}
    /\ IF ~lookup.found \/ lookup.value = "END" \/ lookup.value \notin LevelFiles
       THEN /\ exit' = TRUE
            /\ UNCHANGED <<pc, blocks, mobs, items, pos, world_id, pressed_time, tempo, level,
                           touching>>
       ELSE /\ reset_world(lookup.value)
            /\ UNCHANGED exit

\* Flag.on_hit(app, player)
Flag_on_hit(dir) ==
    /\ health' = IF dir = "A" THEN change_health(health, invincible_time, 1) ELSE health
    /\ Goal_triger("flag", "goal")

\* Mutant of Tunnel_on_hit: the player is attached whatever the direction.
Tunnel_on_hit_any_direction(b, dir) ==
    /\ on_tunnel' = TRUE
    /\ tunnel' = {b}

\* Tunnel.on_hit(player), with Player.on_tunnel
Tunnel_on_hit(b, dir) ==
    IF dir = "A"
    THEN /\ on_tunnel' = TRUE
         /\ tunnel' = {b}
    ELSE UNCHANGED <<on_tunnel, tunnel>>

\* Mutant of BounceBlock_on_hit: the player bounces whatever the direction.
BounceBlock_on_hit_any_direction(v, dir) == <<v[1], BOUNCE_VY>>

\* BounceBlock.on_hit: the player's velocity after the contact
BounceBlock_on_hit(v, dir) == IF dir = "A" THEN <<v[1], BOUNCE_VY>> ELSE v

\* The body of MarioApp._handle_player_collide_block, with Flag.on_hit, Tunnel.on_hit,
\* Switch.on_hit and BounceBlock.on_hit.  The contact with a tunnel is one that begins
\* (on_begin): the tunnel joins the blocks the player touches.
player_collide_block(b, dir) ==
    /\ IF in_invisible_list(b, invisible_list)
       THEN /\ last_return' = "False"
            /\ UNCHANGED <<pc, blocks, mobs, items, pos, world_id, invisible_list, pressed_time,
                           tempo, health, pause, dialogs, exit, level, velocity, tunnel_vars>>
       ELSE IF get_id(b) = "flag"
       THEN /\ health < ConfigHealth + MaxBonus
            /\ Flag_on_hit(dir)
            /\ last_return' = "True"
            /\ UNCHANGED <<invisible_list, velocity, on_tunnel, tunnel>>
       ELSE IF get_id(b) = "tunnel"
       THEN /\ b \notin touching
            /\ touching' = touching \cup {b}
            /\ Tunnel_on_hit(b, dir)
            /\ last_return' = "True"
            /\ UNCHANGED <<pc, blocks, mobs, items, pos, world_id, invisible_list, pressed_time,
                           tempo, health, pause, dialogs, exit, level, velocity>>
       ELSE IF get_id(b) = "switch"
       THEN LET t == switch_on_hit(pressed_time[b[2]], dir) IN
            /\ pressed_time' = [pressed_time EXCEPT ![b[2]] = t]
            /\ IF is_pressed(t)
               THEN \E brick_order \in Orders({k \in blocks_in_range(blocks, pos,
                            get_position(pos, b)[1], get_position(pos, b)[2], INVISIBLE_RADIUS) :
                            get_id(k) = "brick"}) :
                      LET near == ({"mob"} \X mobs) \cup ({"item"} \X items)
                          in_range_list == things_in_range(near, brick_order, blocks, pos,
                              get_position(pos, b)[1], get_position(pos, b)[2], INVISIBLE_RADIUS)
                          hidden == hide_bricks(in_range_list, 1, blocks, invisible_list)
                      IN  /\ blocks' = hidden.blocks
                          /\ invisible_list' = hidden.list
                          /\ last_return' = "False"
               ELSE /\ last_return' = "True"
                    /\ UNCHANGED <<blocks, invisible_list>>
            /\ UNCHANGED <<pc, mobs, items, pos, world_id, tempo, health, pause, dialogs, exit,
                           level,
                           velocity, tunnel_vars>>
       ELSE /\ velocity' = IF get_id(b) = "bounce_block" THEN BounceBlock_on_hit(velocity, dir)
                           ELSE velocity
            /\ last_return' = "True"
            /\ UNCHANGED <<pc, blocks, mobs, items, pos, world_id, invisible_list, pressed_time,
                           tempo, health, pause, dialogs, exit, level, tunnel_vars>>
    /\ UNCHANGED <<score, invincible_time, hidden_for, tick_start, stale_use, config_vars>>

\* The bodies that left the world during the running world.step and have a record.
HiddenInStep == (tick_start.blocks \ blocks) \cap Recorded(invisible_list)

\* MarioApp._handle_player_collide_block for a contact with a block of the world
PlayerCollideBlock(b, dir) ==
    /\ InWorldStep
    /\ b \in blocks
    /\ player_collide_block(b, dir)

\* MarioApp._handle_player_collide_block for a contact, reported in the same
\* world.step, with a brick that a switch press took out of the world earlier in
\* that step (the physics engine had the pair in its batch already).
PlayerCollideHiddenBlock(b, dir) ==
    /\ InWorldStep
    /\ b \in HiddenInStep
    /\ player_collide_block(b, dir)

\* Mutant of PlayerSeparateBlock: the attachment survives the separation.
PlayerSeparateBlock_keeps_attachment(b) ==
    /\ InWorldStep
    /\ b \in blocks \cap touching
    /\ touching' = touching \ {b}
    /\ last_return' = "True"
    /\ UNCHANGED <<pc, blocks, mobs, items, pos, world_id, invisible_list, pressed_time, tempo,
                   health, score, invincible_time, velocity, pause, dialogs, exit, hidden_for,
                   tick_start, level, stale_use, on_tunnel, tunnel, config_vars>>

\* MarioApp._handle_player_separate_block for the end of a contact with a tunnel
\* (on_separate), with Player.off_tunnel.  For a block of another kind the handler
\* only returns True.
PlayerSeparateBlock(b) ==
    /\ InWorldStep
    /\ b \in blocks \cap touching
    /\ touching' = touching \ {b}
    /\ IF get_id(b) = "tunnel"
       THEN /\ on_tunnel' = FALSE
            /\ tunnel' = {}
       ELSE UNCHANGED <<on_tunnel, tunnel>>
    /\ last_return' = "True"
    /\ UNCHANGED <<pc, blocks, mobs, items, pos, world_id, invisible_list, pressed_time, tempo,
                   health, score, invincible_time, velocity, pause, dialogs, exit, hidden_for,
                   tick_start, level, stale_use, config_vars>>

\* Mob.on_hit of a mob that is not a mushroom (game.mob): what it does to the player
\* and to itself is not in the source; it may take 1 health through
\* Player.change_health and may remove itself.
mob_on_hit_outcomes == {[removes |-> r, change |-> c] : r \in BOOLEAN, c \in {0, 0 - 1}}

\* Mutant of PlayerCollideMob: the mob is removed whether or not the player is invincible.
PlayerCollideMob_always_removes(m, dir) ==
    /\ InWorldStep
    /\ m \in mobs
    /\ health > 0 - MaxOverkill
    /\ IF LevelMobs[m] = "mushroom"
       THEN /\ velocity' = mushroom_on_hit_velocity(velocity, dir)
            /\ health' = IF dir # "A" THEN change_health(health, invincible_time, 0 - 1)
                         ELSE health
            /\ tempo' = IF dir # "A"
                        THEN [tempo EXCEPT ![m] = mushroom_collide(tempo[m], dir)]
                        ELSE tempo
       ELSE /\ \E o \in mob_on_hit_outcomes : health' = change_health(health, invincible_time, o.change)
            /\ UNCHANGED <<velocity, tempo>>
    /\ mobs' = remove_mob(mobs, m)
    /\ stale_use' = stale_use
    /\ last_return' = "True"
    /\ UNCHANGED <<pc, blocks, items, pos, world_id, invisible_list, pressed_time, score,
                   invincible_time, pause, dialogs, exit, hidden_for, tick_start, level,
                   tunnel_vars, config_vars>>

\* MarioApp._handle_player_collide_mob, with Mushroom.on_hit
PlayerCollideMob(m, dir) ==
    /\ InWorldStep
    /\ m \in mobs
    /\ health > 0 - MaxOverkill
    /\ \E o \in mob_on_hit_outcomes :
       LET on_hit_removes == IF LevelMobs[m] = "mushroom" THEN dir = "A" ELSE o.removes
           on_hit_mobs == IF on_hit_removes THEN remove_mob(mobs, m) ELSE mobs
       IN  /\ IF LevelMobs[m] = "mushroom"
              THEN /\ velocity' = mushroom_on_hit_velocity(velocity, dir)
                   /\ health' = IF dir # "A" THEN change_health(health, invincible_time, 0 - 1)
                                ELSE health
                   /\ tempo' = IF dir # "A"
                               THEN [tempo EXCEPT ![m] = mushroom_collide(tempo[m], dir)]
                               ELSE tempo
              ELSE /\ health' = change_health(health, invincible_time, o.change)
                   /\ UNCHANGED <<velocity, tempo>>
           /\ mobs' = IF is_invincible(invincible_time) THEN remove_mob(on_hit_mobs, m)
                      ELSE on_hit_mobs
           /\ stale_use' = IF is_invincible(invincible_time) /\ on_hit_removes
                           THEN stale_use \cup {m} ELSE stale_use
    /\ last_return' = "True"
    /\ UNCHANGED <<pc, blocks, items, pos, world_id, invisible_list, pressed_time, score,
                   invincible_time, pause, dialogs, exit, hidden_for, tick_start, level,
                   tunnel_vars, config_vars>>

\* Mutant of mob_collide_block: a pressed switch is treated like any other block.
mob_collide_block_no_switch_test(m, b, dir) ==
    /\ IF in_invisible_list(b, invisible_list)
       THEN /\ last_return' = "False"
            /\ UNCHANGED <<blocks, mobs, tempo>>
       ELSE /\ blocks' = IF LevelMobs[m] = "fireball" /\ get_id(b) = "brick"
                         THEN remove_block(blocks, b) ELSE blocks
            /\ mobs' = IF LevelMobs[m] = "fireball" THEN remove_mob(mobs, m) ELSE mobs
            /\ tempo' = IF LevelMobs[m] = "mushroom"
                        THEN [tempo EXCEPT ![m] = mushroom_collide(tempo[m], dir)]
                        ELSE tempo
            /\ last_return' = "True"
    /\ UNCHANGED <<pc, items, pos, world_id, invisible_list, pressed_time, health, score,
                   invincible_time, velocity, pause, dialogs, exit, hidden_for, tick_start, level,
                   stale_use,
                   tunnel_vars, config_vars>>

\* Mutant of mob_collide_block: a fireball removes every block it hits.
mob_collide_block_any_block(m, b, dir) ==
    /\ IF in_invisible_list(b, invisible_list)
       THEN /\ last_return' = "False"
            /\ UNCHANGED <<blocks, mobs, tempo>>
       ELSE IF get_id(b) = "switch" /\ is_pressed(pressed_time[b[2]])
       THEN /\ last_return' = "False"
            /\ UNCHANGED <<blocks, mobs, tempo>>
       ELSE /\ blocks' = IF LevelMobs[m] = "fireball" THEN remove_block(blocks, b) ELSE blocks
            /\ mobs' = IF LevelMobs[m] = "fireball" THEN remove_mob(mobs, m) ELSE mobs
            /\ tempo' = IF LevelMobs[m] = "mushroom"
                        THEN [tempo EXCEPT ![m] = mushroom_collide(tempo[m], dir)]
                        ELSE tempo
            /\ last_return' = "True"
    /\ UNCHANGED <<pc, items, pos, world_id, invisible_list, pressed_time, health, score,
                   invincible_time, velocity, pause, dialogs, exit, hidden_for, tick_start, level,
                   stale_use,
                   tunnel_vars, config_vars>>

\* The body of MarioApp._handle_mob_collide_block, with Mushroom.collide; dir is the
\* direction of the block seen from the mob.
mob_collide_block(m, b, dir) ==
    /\ IF in_invisible_list(b, invisible_list)
       THEN /\ last_return' = "False"
            /\ UNCHANGED <<blocks, mobs, tempo>>
       ELSE IF get_id(b) = "switch" /\ is_pressed(pressed_time[b[2]])
       THEN /\ last_return' = "False"
            /\ UNCHANGED <<blocks, mobs, tempo>>
       ELSE /\ blocks' = IF LevelMobs[m] = "fireball" /\ get_id(b) = "brick"
                         THEN remove_block(blocks, b) ELSE blocks
            /\ mobs' = IF LevelMobs[m] = "fireball" THEN remove_mob(mobs, m) ELSE mobs
            /\ tempo' = IF LevelMobs[m] = "mushroom"
                        THEN [tempo EXCEPT ![m] = mushroom_collide(tempo[m], dir)]
                        ELSE tempo
            /\ last_return' = "True"
    /\ UNCHANGED <<pc, items, pos, world_id, invisible_list, pressed_time, health, score,
                   invincible_time, velocity, pause, dialogs, exit, hidden_for, tick_start, level,
                   stale_use,
                   tunnel_vars, config_vars>>

\* MarioApp._handle_mob_collide_block for a contact with a block of the world
MobCollideBlock(m, b, dir) ==
    /\ InWorldStep
    /\ m \in mobs
    /\ b \in blocks
    /\ mob_collide_block(m, b, dir)

\* MarioApp._handle_mob_collide_block for a contact, reported in the same world.step,
\* with a brick that a switch press took out of the world earlier in that step.
MobCollideHiddenBlock(m, b, dir) ==
    /\ InWorldStep
    /\ m \in mobs
    /\ b \in HiddenInStep
    /\ mob_collide_block(m, b, dir)

\* Mutant of MobCollideMob: only the fireballs of the pair are removed.
MobCollideMob_fireballs_only(mob1, mob2, dir) ==
    /\ InWorldStep
    /\ mob1 # mob2
    /\ {mob1, mob2} \subseteq mobs
    /\ mobs' = mobs \ {m \in {mob1, mob2} : LevelMobs[m] = "fireball"}
    /\ tempo' = [m \in Mushrooms |->
                    IF m = mob1 THEN mushroom_collide(tempo[m], dir)
                    ELSE IF m = mob2 THEN mushroom_collide(tempo[m], Opposite(dir))
                    ELSE tempo[m]]
    /\ stale_use' = stale_use
    /\ last_return' = "False"
    /\ UNCHANGED <<pc, blocks, items, pos, world_id, invisible_list, pressed_time, health,
                   score, invincible_time, velocity, pause, dialogs, exit, hidden_for, tick_start,
                   level,
                   tunnel_vars, config_vars>>

\* MarioApp._handle_mob_collide_mob, with Mushroom.collide; dir is the direction of
\* mob2 seen from mob1.  With a fireball in the pair both mobs are removed first and
\* a mushroom of the pair is then asked to collide.
MobCollideMob(mob1, mob2, dir) ==
    /\ InWorldStep
    /\ mob1 # mob2
    /\ {mob1, mob2} \subseteq mobs
    /\ LET fireball == LevelMobs[mob1] = "fireball" \/ LevelMobs[mob2] = "fireball" IN
       /\ mobs' = IF fireball THEN remove_mob(remove_mob(mobs, mob1), mob2) ELSE mobs
       /\ stale_use' = IF fireball
                       THEN stale_use \cup ({mob1, mob2} \cap Mushrooms)
                       ELSE stale_use
    /\ tempo' = [m \in Mushrooms |->
                    IF m = mob1 THEN mushroom_collide(tempo[m], dir)
                    ELSE IF m = mob2 THEN mushroom_collide(tempo[m], Opposite(dir))
                    ELSE tempo[m]]
    /\ last_return' = "False"
    /\ UNCHANGED <<pc, blocks, items, pos, world_id, invisible_list, pressed_time, health,
                   score, invincible_time, velocity, pause, dialogs, exit, hidden_for, tick_start,
                   level,
                   tunnel_vars, config_vars>>

\* Mutant of PlayerCollideItem: the collected item stays in the world.
PlayerCollideItem_keeps_item(i) ==
    /\ InWorldStep
    /\ i \in items
    /\ score' = IF LevelItems[i] = "coin" THEN score + 1 ELSE score
    /\ invincible_time' = IF LevelItems[i] = "star" THEN INVINCIBLE_TIME ELSE invincible_time
    /\ last_return' = "False"
    /\ UNCHANGED <<pc, blocks, mobs, items, pos, world_id, invisible_list, pressed_time, tempo,
                   health, velocity, pause, dialogs, exit, hidden_for, tick_start, level, stale_use,
                   tunnel_vars, config_vars>>

\* Mutant of PlayerCollideItem: every collected item, not only a star, makes the
\* player invincible.
PlayerCollideItem_all_invincible(i) ==
    /\ InWorldStep
    /\ i \in items
    /\ score' = IF LevelItems[i] = "coin" THEN score + 1 ELSE score
    /\ invincible_time' = INVINCIBLE_TIME
    /\ items' = remove_item(items, i)
    /\ last_return' = "False"
    /\ UNCHANGED <<pc, blocks, mobs, pos, world_id, invisible_list, pressed_time, tempo,
                   health, velocity, pause, dialogs, exit, hidden_for, tick_start,
                   level, stale_use,
                   tunnel_vars, config_vars>>

\* Mutant of PlayerCollideItem: a coin takes a point instead of giving one.
PlayerCollideItem_coin_costs(i) ==
    /\ InWorldStep
    /\ i \in items
    /\ score' = IF LevelItems[i] = "coin" THEN score - 1 ELSE score
    /\ invincible_time' = IF LevelItems[i] = "star" THEN INVINCIBLE_TIME ELSE invincible_time
    /\ items' = remove_item(items, i)
    /\ last_return' = "False"
    /\ UNCHANGED <<pc, blocks, mobs, pos, world_id, invisible_list, pressed_time, tempo,
                   health, velocity, pause, dialogs, exit, hidden_for, tick_start,
                   level, stale_use,
                   tunnel_vars, config_vars>>

\* MarioApp._handle_player_collide_item, with Coin.collect and Star.collect
PlayerCollideItem(i) ==
    /\ InWorldStep
    /\ i \in items
    /\ score' = IF LevelItems[i] = "coin" THEN score + 1 ELSE score
    /\ invincible_time' = IF LevelItems[i] = "star" THEN INVINCIBLE_TIME ELSE invincible_time
    /\ items' = remove_item(items, i)
    /\ last_return' = "False"
    /\ UNCHANGED <<pc, blocks, mobs, pos, world_id, invisible_list, pressed_time, tempo,
                   health, velocity, pause, dialogs, exit, hidden_for, tick_start,
                   level, stale_use,
                   tunnel_vars, config_vars>>

(***************************************************************************)
(* The tick callback MarioApp.step.  A non-paused tick enters world.step   *)
(* (WorldStep), the physics engine fires collision handlers, and the rest  *)
(* of the callback runs when world.step returns (StepFinish).              *)
(***************************************************************************)
\* What the physics step may do to the player's velocity before it reports contacts:
\* nothing, stop the fall (landing) or stop the walk (friction).
physics_velocities(v) == {v, <<v[1], 0>>, <<0, v[2]>>}

\* Mutant of StepPaused: the paused callback does not look at the exit request.
StepPaused_ignores_exit ==
    /\ pc = "idle"
    /\ pause
    /\ pc' = "idle"
    /\ UNCHANGED <<blocks, mobs, items, pos, world_id, invisible_list, pressed_time, tempo,
                   health, score, invincible_time, velocity, pause, dialogs, exit,
                   last_return, hidden_for, tick_start,
                   level, stale_use,
                   tunnel_vars, config_vars>>

\* Mutant of StepPaused: the player's countdown runs on while the game is paused.
StepPaused_steps_player ==
    /\ pc = "idle"
    /\ pause
    /\ pc' = IF exit THEN "exited" ELSE "idle"
    /\ invincible_time' = player_step(invincible_time)
    /\ UNCHANGED <<blocks, mobs, items, pos, world_id, invisible_list, pressed_time, tempo,
                   health, score, velocity, pause, dialogs, exit,
                   last_return, hidden_for, tick_start,
                   level, stale_use,
                   tunnel_vars, config_vars>>

\* MarioApp.step, paused: nothing is stepped; exit(0) if exit was requested, else the
\* callback is scheduled again.
StepPaused ==
    /\ pc = "idle"
    /\ pause
    /\ pc' = IF exit THEN "exited" ELSE "idle"
    /\ UNCHANGED <<blocks, mobs, items, pos, world_id, invisible_list, pressed_time, tempo,
                   health, score, invincible_time, velocity, pause, dialogs, exit,
                   last_return, hidden_for, tick_start,
                   level, stale_use,
                   tunnel_vars, config_vars>>

\* MarioApp.step, not paused: self._world.step(data) begins.
WorldStep ==
    /\ pc = "idle"
    /\ ~pause
    /\ pc' = "collide"
    /\ velocity' \in physics_velocities(velocity)
    /\ tick_start' = [invincible_time |-> invincible_time, pressed_time |-> pressed_time,
                      items |-> items, blocks |-> blocks]
    /\ UNCHANGED <<blocks, mobs, items, pos, world_id, invisible_list, pressed_time, tempo,
                   health, score, invincible_time, pause, dialogs, exit, last_return,
                   hidden_for, level, stale_use,
                   tunnel_vars, config_vars>>

\* History: every brick that has a record after invisble_step has been invisible for
\* one more tick.
hidden_after(lst, h) == [b \in Bricks |-> IF b \in Recorded(lst) THEN h[b] + 1 ELSE 0]

\* MarioApp.step, not paused, from the return of world.step: the entities' step hooks
\* (Player.step, Switch.step), invisble_step, dead_ask_reset (with reset_level and
\* reset_world on "yes", exit on "no"), then exit(0) or the next callback.
StepFinish_continues_dead ==
    /\ pc \in {"collide", "loaded"}
    /\ last_return' = "none"
    /\ tick_start' = NoTick
    /\ stale_use' = {}
    /\ level' = level
    /\ LET inv == invisble_step(invisible_list, blocks, pos) IN
       /\ invisible_list' = inv.list
       /\ hidden_for' = hidden_after(inv.list, hidden_for)
       /\ blocks' = inv.blocks
       /\ pos' = inv.pos
       /\ invincible_time' = player_step(invincible_time)
       /\ pressed_time' = [n \in SwitchNames |-> switch_step(pressed_time[n])]
       /\ pc' = IF exit THEN "exited" ELSE "idle"
       /\ UNCHANGED <<world_id, health, score, mobs, items, tempo, velocity, exit,
                      tunnel_vars>>
    /\ UNCHANGED <<pause, dialogs, config_vars>>

StepFinish ==
    /\ pc \in {"collide", "loaded"}
    /\ last_return' = "none"
    /\ tick_start' = NoTick
    /\ stale_use' = {}
    /\ level' = level
    /\ LET inv == invisble_step(invisible_list, blocks, pos) IN
       /\ invisible_list' = inv.list
       /\ hidden_for' = hidden_after(inv.list, hidden_for)
       /\ IF is_dead(health)
          THEN \E reply \in {"yes", "no"} :
               IF reply = "yes"
               THEN /\ world_id < MaxLoads
                    /\ world_id' = world_id + 1
                    /\ health' = ConfigHealth
                    /\ score' = 0
                    /\ invincible_time' = 0
                    /\ blocks' = LoadedBlocks(world_id + 1)
                    /\ pos' = [b \in BlockIds |-> IF b[1] = world_id + 1
                                                  THEN create_block_pos(b[2]) ELSE inv.pos[b]]
                    /\ mobs' = MobNames
                    /\ items' = ItemNames
                    /\ pressed_time' = [n \in SwitchNames |-> 0]
                    /\ tempo' = [m \in Mushrooms |-> MUSHROOM_TEMPO]
                    /\ velocity' = <<0, 0>>
                    /\ on_tunnel' = FALSE
                    /\ tunnel' = {}
                    /\ touching' = {}
                    /\ exit' = exit
                    /\ pc' = IF exit THEN "exited" ELSE "idle"
               ELSE /\ exit' = TRUE
                    /\ pc' = "exited"
                    /\ blocks' = inv.blocks
                    /\ pos' = inv.pos
                    /\ invincible_time' = player_step(invincible_time)
                    /\ pressed_time' = [n \in SwitchNames |-> switch_step(pressed_time[n])]
                    /\ UNCHANGED <<world_id, health, score, mobs, items, tempo, velocity,
                                   tunnel_vars>>
          ELSE /\ blocks' = inv.blocks
               /\ pos' = inv.pos
               /\ invincible_time' = player_step(invincible_time)
               /\ pressed_time' = [n \in SwitchNames |-> switch_step(pressed_time[n])]
               /\ pc' = IF exit THEN "exited" ELSE "idle"
               /\ UNCHANGED <<world_id, health, score, mobs, items, tempo, velocity, exit,
                              tunnel_vars>>
    /\ UNCHANGED <<pause, dialogs, config_vars>>

(***************************************************************************)
(* Commands of the user, handled between two tick callbacks.               *)
(***************************************************************************)
\* MarioApp.pause (menu Game > Pause)
Pause ==
    /\ pc = "idle"
    /\ pause' = TRUE
    /\ dialogs' = dialogs
    /\ UNCHANGED <<pc, blocks, mobs, items, pos, world_id, invisible_list, pressed_time,
                   tempo, health, score, invincible_time, velocity, exit,
                   last_return, hidden_for, tick_start,
                   level, stale_use,
                   tunnel_vars, config_vars>>

\* MarioApp.resume (menu Game > Continue)
Resume ==
    /\ pc = "idle"
    /\ pause' = FALSE
    /\ dialogs' = dialogs
    /\ UNCHANGED <<pc, blocks, mobs, items, pos, world_id, invisible_list, pressed_time,
                   tempo, health, score, invincible_time, velocity, exit,
                   last_return, hidden_for, tick_start,
                   level, stale_use,
                   tunnel_vars, config_vars>>

\* MarioApp.read_highscore (menu Game > High Score): the leaderboard window opens and
\* the game is paused.  The windows are not modal: every command stays available
\* while one is open.  One window of a kind is open at a time here.
ReadHighscore ==
    /\ pc = "idle"
    /\ "leaderboard" \notin dialogs
    /\ dialogs' = dialogs \cup {"leaderboard"}
    /\ pause' = TRUE
    /\ UNCHANGED <<pc, blocks, mobs, items, pos, world_id, invisible_list, pressed_time,
                   tempo, health, score, invincible_time, velocity, exit,
                   last_return, hidden_for, tick_start,
                   level, stale_use,
                   tunnel_vars, config_vars>>

\* MarioApp.read_highscore_closing: resume, and the leaderboard window is destroyed.
ReadHighscoreClosing ==
    /\ pc = "idle"
    /\ "leaderboard" \in dialogs
    /\ pause' = FALSE
    /\ dialogs' = dialogs \ {"leaderboard"}
    /\ UNCHANGED <<pc, blocks, mobs, items, pos, world_id, invisible_list, pressed_time,
                   tempo, health, score, invincible_time, velocity, exit,
                   last_return, hidden_for, tick_start,
                   level, stale_use,
                   tunnel_vars, config_vars>>

\* MarioApp.edit_level (menu File > Edit Level): the game is paused and the level
\* editor window opens.
EditLevel ==
    /\ pc = "idle"
    /\ "editor" \notin dialogs
    /\ pause' = TRUE
    /\ dialogs' = dialogs \cup {"editor"}
    /\ UNCHANGED <<pc, blocks, mobs, items, pos, world_id, invisible_list, pressed_time,
                   tempo, health, score, invincible_time, velocity, exit,
                   last_return, hidden_for, tick_start,
                   level, stale_use,
                   tunnel_vars, config_vars>>

\* MarioApp.edit_level_closing and save_edited_level: the editor window is destroyed
\* and the game resumed, unless the level was edited and the user answers Cancel to
\* "Leave without saving?".
EditLevelClosing ==
    /\ pc = "idle"
    /\ "editor" \in dialogs
    /\ \E leave \in BOOLEAN :
         IF leave
         THEN /\ dialogs' = dialogs \ {"editor"}
              /\ pause' = FALSE
         ELSE UNCHANGED <<pause, dialogs>>
    /\ UNCHANGED <<pc, blocks, mobs, items, pos, world_id, invisible_list, pressed_time,
                   tempo, health, score, invincible_time, velocity, exit,
                   last_return, hidden_for, tick_start,
                   level, stale_use,
                   tunnel_vars, config_vars>>

\* MarioApp.enter (the prompt's Enter button and the Return key): the prompt window is
\* destroyed, the record written and the game resumed.
Enter ==
    /\ pc = "idle"
    /\ "prompt" \in dialogs
    /\ dialogs' = dialogs \ {"prompt"}
    /\ pause' = FALSE
    /\ UNCHANGED <<pc, blocks, mobs, items, pos, world_id, invisible_list, pressed_time,
                   tempo, health, score, invincible_time, velocity, exit,
                   last_return, hidden_for, tick_start,
                   level, stale_use,
                   tunnel_vars, config_vars>>

\* MarioApp.write_highscore_closing: on OK the game is resumed and the prompt window
\* destroyed; on Cancel the window is destroyed and write_highscore pauses the game
\* and opens a new one.
WriteHighscoreClosing ==
    /\ pc = "idle"
    /\ "prompt" \in dialogs
    /\ \E leave \in BOOLEAN :
         IF leave
         THEN /\ pause' = FALSE
              /\ dialogs' = dialogs \ {"prompt"}
         ELSE /\ pause' = TRUE
              /\ dialogs' = dialogs
    /\ UNCHANGED <<pc, blocks, mobs, items, pos, world_id, invisible_list, pressed_time,
                   tempo, health, score, invincible_time, velocity, exit,
                   last_return, hidden_for, tick_start,
                   level, stale_use,
                   tunnel_vars, config_vars>>

\* MarioApp._move_event, keys Right and Left: _move(vx, vy) with the current vy
Move(sign) ==
    /\ pc = "idle"
    /\ velocity' = <<sign * MARIO_VX, velocity[2]>>
    /\ UNCHANGED <<pc, blocks, mobs, items, pos, world_id, invisible_list, pressed_time,
                   tempo, health, score, invincible_time, pause, dialogs, exit,
                   last_return, hidden_for, tick_start,
                   level, stale_use,
                   tunnel_vars, config_vars>>

\* Mutant of Jump: the vertical velocity is set whatever it was.
Jump_always ==
    /\ pc = "idle"
    /\ velocity' = <<velocity[1], MARIO_VY>>
    /\ UNCHANGED <<pc, blocks, mobs, items, pos, world_id, invisible_list, pressed_time,
                   tempo, health, score, invincible_time, pause, dialogs, exit,
                   last_return, hidden_for, tick_start,
                   level, stale_use,
                   tunnel_vars, config_vars>>

\* MarioApp._jump
Jump ==
    /\ pc = "idle"
    /\ velocity' = <<velocity[1], IF velocity[2] = 0 THEN MARIO_VY ELSE velocity[2]>>
    /\ UNCHANGED <<pc, blocks, mobs, items, pos, world_id, invisible_list, pressed_time,
                   tempo, health, score, invincible_time, pause, dialogs, exit,
                   last_return, hidden_for, tick_start,
                   level, stale_use,
                   tunnel_vars, config_vars>>

\* Mutant of Duck: the player stays attached after the trigger.
Duck_stays_attached ==
    /\ pc = "idle"
    /\ IF on_tunnel
       THEN /\ Goal_triger(get_id(CHOOSE t \in tunnel : TRUE), "")
            /\ UNCHANGED <<on_tunnel, tunnel>>
       ELSE UNCHANGED <<pc, blocks, mobs, items, pos, world_id, pressed_time, tempo, level,
                        pause, dialogs, exit, tunnel_vars>>
    /\ UNCHANGED <<invisible_list, health, score, invincible_time, velocity, last_return,
                   hidden_for, tick_start, stale_use, config_vars>>

\* MarioApp._duck (keys Down and s): Goal.triger of the tunnel the player is on, with
\* no trigger_id, then Player.off_tunnel.
Duck ==
    /\ pc = "idle"
    /\ IF on_tunnel
       THEN /\ Goal_triger(get_id(CHOOSE t \in tunnel : TRUE), "")
            /\ on_tunnel' = FALSE
            /\ tunnel' = {}
       ELSE UNCHANGED <<pc, blocks, mobs, items, pos, world_id, pressed_time, tempo, level,
                        pause, dialogs, exit, tunnel_vars>>
    /\ UNCHANGED <<invisible_list, health, score, invincible_time, velocity, last_return,
                   hidden_for, tick_start, stale_use, config_vars>>

\* MarioApp.exit (menu File > Exit)
Exit ==
    /\ pc = "idle"
    /\ exit' = TRUE
    /\ UNCHANGED <<pc, blocks, mobs, items, pos, world_id, invisible_list, pressed_time,
                   tempo, health, score, invincible_time, velocity, pause, dialogs,
                   last_return, hidden_for, tick_start,
                   level, stale_use,
                   tunnel_vars, config_vars>>

(***************************************************************************)
(* Specifications.                                                         *)
(***************************************************************************)
Next ==
    \/ StepPaused
    \/ WorldStep
    \/ StepFinish
    \/ \E b \in BlockIds, dir \in Directions : PlayerCollideBlock(b, dir)
    \/ \E b \in BlockIds, dir \in Directions : PlayerCollideHiddenBlock(b, dir)
    \/ \E m \in MobNames, dir \in Directions : PlayerCollideMob(m, dir)
    \/ \E i \in ItemNames : PlayerCollideItem(i)
    \/ \E m \in MobNames, b \in BlockIds, dir \in Directions : MobCollideBlock(m, b, dir)
    \/ \E m \in MobNames, b \in BlockIds, dir \in Directions : MobCollideHiddenBlock(m, b, dir)
    \/ \E mob1, mob2 \in MobNames, dir \in Directions : MobCollideMob(mob1, mob2, dir)
    \/ Pause
    \/ Resume
    \/ \E b \in BlockIds : PlayerSeparateBlock(b)
    \/ \E sign \in {0 - 1, 1} : Move(sign)
    \/ Jump
    \/ Duck
    \/ Exit
    \/ ReadHighscore
    \/ ReadHighscoreClosing
    \/ EditLevel
    \/ EditLevelClosing
    \/ Enter
    \/ WriteHighscoreClosing

Spec == Init /\ [][Next]_vars

\* The tick with the player's contacts with blocks: the switches, the bricks they hide
\* and the invisible-block list.
NextSwitch ==
    \/ StepPaused
    \/ WorldStep
    \/ StepFinish
    \/ \E b \in AreaBlocks, dir \in Directions : PlayerCollideBlock(b, dir)
    \/ Pause
    \/ Resume

SpecSwitch == Init /\ [][NextSwitch]_vars

\* The tick with the player's contacts with blocks and items: all three countdowns.
NextTimers ==
    \/ StepPaused
    \/ WorldStep
    \/ StepFinish
    \/ \E b \in AreaBlocks, dir \in Directions : PlayerCollideBlock(b, dir)
    \/ \E i \in ItemNames : PlayerCollideItem(i)
    \/ Pause
    \/ Resume

SpecTimers == Init /\ [][NextTimers]_vars

\* The tick with the player's contacts with mobs and items, and the movement keys.
NextMob ==
    \/ StepPaused
    \/ WorldStep
    \/ StepFinish
    \/ \E m \in MobSample, dir \in Directions : PlayerCollideMob(m, dir)
    \/ \E i \in ItemNames : PlayerCollideItem(i)
    \/ Pause
    \/ Resume
    \/ \E sign \in {0 - 1, 1} : Move(sign)
    \/ Jump

SpecMob == Init /\ [][NextMob]_vars

\* The tick with the contacts of a fireball and a mushroom with the blocks around
\* switch S1 and the player's contacts with those blocks, bricks hidden earlier in
\* the step included.
NextFire ==
    \/ StepPaused
    \/ WorldStep
    \/ StepFinish
    \/ \E b \in S1Blocks, dir \in Directions : PlayerCollideBlock(b, dir)
    \/ \E b \in S1Blocks, dir \in Directions : PlayerCollideHiddenBlock(b, dir)
    \/ \E m \in MobSample, b \in S1Blocks, dir \in Directions : MobCollideBlock(m, b, dir)
    \/ \E m \in MobSample, b \in S1Blocks, dir \in Directions : MobCollideHiddenBlock(m, b, dir)
    \/ Pause
    \/ Resume

SpecFire == Init /\ [][NextFire]_vars

\* The tick with the contacts between mobs and of the mobs with the ground.
NextMobs ==
    \/ StepPaused
    \/ WorldStep
    \/ StepFinish
    \/ \E mob1, mob2 \in MobNames, dir \in Directions : MobCollideMob(mob1, mob2, dir)
    \/ \E m \in MobNames, b \in BrickBases, dir \in Directions : MobCollideBlock(m, b, dir)
    \/ Pause
    \/ Resume

SpecMobs == Init /\ [][NextMobs]_vars

\* The tick with the player's contacts with the flag, with a mob of each kind and
\* with the star.
NextGoal ==
    \/ StepPaused
    \/ WorldStep
    \/ StepFinish
    \/ \E b \in FlagBlocks, dir \in Directions : PlayerCollideBlock(b, dir)
    \/ \E m \in MobSample, dir \in Directions : PlayerCollideMob(m, dir)
    \/ \E i \in Stars : PlayerCollideItem(i)
    \/ Pause
    \/ Resume

SpecGoal == Init /\ [][NextGoal]_vars

\* The tick with the player's contacts with the goal blocks and the items, the end of
\* the contacts with the tunnels, and the duck key.
TunnelBlocks == {b \in BlockIds : get_id(b) = "tunnel"}

NextTunnel ==
    \/ StepPaused
    \/ WorldStep
    \/ StepFinish
    \/ \E b \in GoalBlocks, dir \in Directions : PlayerCollideBlock(b, dir)
    \/ \E b \in TunnelBlocks : PlayerSeparateBlock(b)
    \/ \E i \in ItemNames : PlayerCollideItem(i)
    \/ Duck
    \/ Resume

SpecTunnel == Init /\ [][NextTunnel]_vars

\* The tick, paused and not, with the three countdowns running and the exit command.
NextPause ==
    \/ StepPaused
    \/ WorldStep
    \/ StepFinish
    \/ \E b \in S1Blocks, dir \in Directions : PlayerCollideBlock(b, dir)
    \/ \E i \in Stars : PlayerCollideItem(i)
    \/ Pause
    \/ Resume
    \/ Exit

SpecPause == Init /\ [][NextPause]_vars

\* The tick with the player's contacts with switch S2 and with the flag: bricks are
\* hidden in one world and come back after the next is loaded.
SwitchBlocks == {b \in BlockIds : b[2] = "S2"}

NextWorlds ==
    \/ StepPaused
    \/ WorldStep
    \/ StepFinish
    \/ \E b \in SwitchBlocks \cup FlagBlocks, dir \in Directions : PlayerCollideBlock(b, dir)
    \/ Resume

SpecWorlds == Init /\ [][NextWorlds]_vars

\* The tick with the player's contacts with the bounce block and the items, and the
\* movement keys.
BounceBlocks == {b \in BlockIds : get_id(b) = "bounce_block"}

NextBounce ==
    \/ StepPaused
    \/ WorldStep
    \/ StepFinish
    \/ \E b \in BounceBlocks, dir \in Directions : PlayerCollideBlock(b, dir)
    \/ \E i \in ItemNames : PlayerCollideItem(i)
    \/ \E sign \in {0 - 1, 1} : Move(sign)
    \/ Jump
    \/ Pause
    \/ Resume

SpecBounce == Init /\ [][NextBounce]_vars

\* The start of the application: MarioApp.__init__ before load_config, with one of the
\* configuration files chosen in the file dialog; no world is built yet.
InitConfig ==
    /\ pc = "boot"
    /\ config_file \in ConfigFiles
    /\ config_error = "none"
    /\ world_id = 0
    /\ blocks = {}
    /\ mobs = {}
    /\ items = {}
    /\ pos = [b \in BlockIds |-> create_block_pos(b[2])]
    /\ invisible_list = <<>>
    /\ pressed_time = [n \in SwitchNames |-> 0]
    /\ tempo = [m \in Mushrooms |-> MUSHROOM_TEMPO]
    /\ health = 0
    /\ score = 0
    /\ invincible_time = 0
    /\ velocity = <<0, 0>>
    /\ pause = FALSE
    /\ dialogs = {}
    /\ exit = FALSE
    /\ last_return = "none"
    /\ hidden_for = [b \in Bricks |-> 0]
    /\ tick_start = NoTick
    /\ level = ""
    /\ stale_use = {}
    /\ on_tunnel = FALSE
    /\ tunnel = {}
    /\ touching = {}

\* MarioApp.__init__ from load_config on: configuration_error ends the application
\* with exit(0); otherwise the player is made and reset_world builds the world of
\* the start level.
LoadConfig ==
    /\ pc = "boot"
    /\ config_error' = load_config(config_file)
    /\ IF config_error' # "none"
       THEN /\ pc' = "exited"
            /\ UNCHANGED <<blocks, mobs, items, health, level>>
       ELSE /\ pc' = "idle"
            /\ blocks' = LoadedBlocks(0)
            /\ mobs' = MobNames
            /\ items' = ItemNames
            /\ health' = ConfigHealth
            /\ level' = StartLevel
    /\ UNCHANGED <<pos, world_id, invisible_list, pressed_time, tempo, score,
                   invincible_time, velocity, pause, dialogs, exit, last_return, hidden_for,
                   tick_start, stale_use, tunnel_vars, config_file>>

NextConfig == LoadConfig

SpecConfig == InitConfig /\ [][NextConfig]_vars

\* The tick with the player's contacts with the items, a mushroom and the flag: the
\* score is earned, carried into the next level, and lost with the player's life.
NextScore ==
    \/ StepPaused
    \/ WorldStep
    \/ StepFinish
    \/ \E i \in ItemNames : PlayerCollideItem(i)
    \/ \E m \in MobSample \cap Mushrooms, dir \in Directions : PlayerCollideMob(m, dir)
    \/ \E b \in FlagBlocks, dir \in Directions : PlayerCollideBlock(b, dir)
    \/ Resume

SpecScore == Init /\ [][NextScore]_vars

\* The tick with the ways of dying and of changing what a new Player resets: the
\* mushrooms, the coin and the star, the flag and the tunnel.
NextDeath ==
    \/ StepPaused
    \/ WorldStep
    \/ StepFinish
    \/ \E i \in ItemNames : PlayerCollideItem(i)
    \/ \E m \in MobSample \cap Mushrooms, dir \in Directions : PlayerCollideMob(m, dir)
    \/ \E b \in GoalBlocks, dir \in Directions : PlayerCollideBlock(b, dir)
    \/ Resume

SpecDeath == Init /\ [][NextDeath]_vars

\* The tick with the pausing windows: the prompt that a flag opens (for the score that
\* the items gave), the leaderboard and the level editor, opened and closed in any order.  The commands Pause and
\* Continue are left out: the game is paused and resumed by the windows only.
NextDialogs ==
    \/ StepPaused
    \/ WorldStep
    \/ StepFinish
    \/ \E b \in FlagBlocks, dir \in Directions : PlayerCollideBlock(b, dir)
    \/ \E i \in ItemNames : PlayerCollideItem(i)
    \/ ReadHighscore
    \/ ReadHighscoreClosing
    \/ EditLevel
    \/ EditLevelClosing
    \/ Enter
    \/ WriteHighscoreClosing

SpecDialogs == Init /\ [][NextDialogs]_vars

\* The configuration files of the lookup: the keys load_config asks for, with one of
\* two start levels, followed by up to MaxSectionLines marker and goal lines in
\* any order.
MaxSectionLines == 3

ConfigHeader(start) ==
    << DeclLine("gravity", "400"), DeclLine("start", start), DeclLine("x", "30"),
       DeclLine("y", "30"), DeclLine("mass", "100"), DeclLine("health", "5"),
       DeclLine("max_velocity", "500") >>

LookupLines ==
    {MarkerLine("level1"), MarkerLine("level2"),
     DeclLine("goal", "level2"), DeclLine("goal", "bonus")}

LookupFiles ==
    {[exists |-> TRUE, lines |-> ConfigHeader(start) \o body] :
        start \in {"level1", "level2"},
        body \in UNION {[1..n -> LookupLines] : n \in 0..MaxSectionLines}}

\* MarioApp.__init__ with one of these files: the active level is the start level.
InitLookup ==
    /\ pc = "idle"
    /\ config_file \in LookupFiles
    /\ config_error = "none"
    /\ level = found_value(config_file.lines, "start").value
    /\ world_id = 0
    /\ blocks = LoadedBlocks(0)
    /\ mobs = MobNames
    /\ items = ItemNames
    /\ pos = [b \in BlockIds |-> create_block_pos(b[2])]
    /\ invisible_list = <<>>
    /\ pressed_time = [n \in SwitchNames |-> 0]
    /\ tempo = [m \in Mushrooms |-> MUSHROOM_TEMPO]
    /\ health = ConfigHealth
    /\ score = 0
    /\ invincible_time = 0
    /\ velocity = <<0, 0>>
    /\ pause = FALSE
    /\ dialogs = {}
    /\ exit = FALSE
    /\ last_return = "none"
    /\ hidden_for = [b \in Bricks |-> 0]
    /\ tick_start = NoTick
    /\ stale_use = {}
    /\ on_tunnel = FALSE
    /\ tunnel = {}
    /\ touching = {}

\* The tick with the player's contacts with the flag.
NextLookup ==
    \/ StepPaused
    \/ WorldStep
    \/ StepFinish
    \/ \E b \in FlagBlocks, dir \in Directions : PlayerCollideBlock(b, dir)
    \/ Resume

SpecLookup == InitLookup /\ [][NextLookup]_vars

\* The tick with every way of requesting the exit: the exit command, the goals (no
\* declaration, END, a missing level file) and the restart declined after a death by
\* a mushroom.  The callback is scheduled with after(10, self.step): it runs again
\* and again whatever the user does in between, and world.step returns.
NextExit ==
    \/ StepPaused
    \/ WorldStep
    \/ StepFinish
    \/ \E b \in GoalBlocks, dir \in Directions : PlayerCollideBlock(b, dir)
    \/ \E b \in TunnelBlocks : PlayerSeparateBlock(b)
    \/ \E m \in MobSample \cap Mushrooms, dir \in Directions : PlayerCollideMob(m, dir)
    \/ Duck
    \/ Pause
    \/ Resume
    \/ Exit

TickCallback ==
    \/ StepPaused
    \/ WorldStep
    \/ pc' \in {"idle", "exited"} /\ StepFinish

\* (Every step of the callback changes pc.)
SpecExit == Init /\ [][NextExit]_vars /\ WF_pc(TickCallback)

(***************************************************************************)
(* Claims about the invisible-block list (checked under SpecSwitch).       *)
(***************************************************************************)
\* The step that ends a non-paused tick without loading the world again.
TickEnds == pc = "collide" /\ pc' # "collide" /\ world_id' = world_id

\* C1: in every non-paused tick invisble_step decrements every record of the
\* invisible-block list by exactly 1, and every record that reaches zero is put back
\* into the world at its stored position and dropped from the list in that same tick;
\* no record is skipped, whatever other records expire in the tick.
C1_EveryRecordStepped ==
    [][TickEnds =>
        \A i \in DOMAIN invisible_list :
            LET b == invisible_list[i][1]
                t == invisible_list[i][2]
            IN  IF t - 1 <= 0
                THEN b \notin Recorded(invisible_list') /\ b \in blocks' /\ pos'[b] = pos[b]
                ELSE \E j \in DOMAIN invisible_list' : invisible_list'[j] = <<b, t - 1>>]_vars

\* C2: bricks made invisible by one switch trigger are all back in the world, at their
\* coordinates and without a record, once the countdown they were given has run out:
\* at a tick boundary no brick that still has a record has been invisible for the full
\* countdown.
C2_AllBackAfterCountdown ==
    pc = "idle" =>
        \A b \in Recorded(invisible_list) : hidden_for[b] < INVISIBLE_TIME

\* The bricks of the world within the invisible radius of switch s.
BricksInRangeOf(s) ==
    {b \in blocks : get_id(b) = "brick"
                    /\ box_in_range(pos[b], pos[s][1], pos[s][2], INVISIBLE_RADIUS)}

\* C3: when the player presses a Switch from above, exactly the bricks of the world
\* within the switch's radius leave the world and are appended to the invisible-block
\* list with the full countdown each; bricks out of range, other blocks, mobs and items
\* are neither removed nor recorded.
C3_PressHidesBricksInRange ==
    [][\A n \in SwitchNames :
        (~is_pressed(pressed_time[n]) /\ is_pressed(pressed_time'[n])) =>
            LET hit == BricksInRangeOf(<<world_id, n>>)
                old == Len(invisible_list)
            IN  /\ blocks' = blocks \ hit
                /\ Len(invisible_list') = old + Cardinality(hit)
                /\ SubSeq(invisible_list', 1, old) = invisible_list
                /\ {invisible_list'[j][1] : j \in (old + 1)..Len(invisible_list')} = hit
                /\ \A j \in (old + 1)..Len(invisible_list') :
                       invisible_list'[j][2] = INVISIBLE_TIME
                /\ mobs' = mobs
                /\ items' = items]_vars

\* C3 witness: switch S1 has just been pressed; its three bricks are recorded, the
\* brick out of range and the brick_base block next to the switch are in the world.
C3_Witness ==
    /\ pc = "collide"
    /\ pressed_time["S1"] = PRESSED_TIME
    /\ Recorded(invisible_list) = {<<0, "B1">>, <<0, "B2">>, <<0, "B3">>}
    /\ {<<0, "B4">>, <<0, "G1">>, <<0, "S1">>} \subseteq blocks
    /\ mobs = MobNames
    /\ items = ItemNames

\* C4: at every tick boundary a block that has a record in the invisible-block list is
\* not in the world's active block set, and no block has more than one record.
C4_RecordedNotInWorld ==
    pc # "collide" =>
        /\ \A b \in Recorded(invisible_list) : b \notin blocks
        /\ \A i, j \in DOMAIN invisible_list :
               i # j => invisible_list[i][1] # invisible_list[j][1]

\* C4 witness: a tick boundary with bricks recorded by two different triggers.
C4_Witness ==
    /\ pc = "idle"
    /\ Len(invisible_list) >= 2
    /\ \E i, j \in DOMAIN invisible_list : invisible_list[i][2] # invisible_list[j][2]

\* C7: a contact of the player, from any direction, with a Switch that is already
\* pressed leaves the pressed countdown as it is, moves no brick into the
\* invisible-block list and removes no block from the world.
C7_PressedSwitchContactIdle ==
    [][\A b \in BlockIds, dir \in Directions :
        (/\ get_id(b) = "switch"
         /\ is_pressed(pressed_time[b[2]])
         /\ PlayerCollideBlock(b, dir)) =>
            /\ pressed_time' = pressed_time
            /\ invisible_list' = invisible_list
            /\ blocks' = blocks]_vars

\* C8: a block that is moved into the invisible-block list and later put back by
\* invisble_step is the same block, of the same kind, at the same position and with
\* the same behavioural state as before its removal: only bricks (which carry no state
\* of their own) are ever recorded, the position of a block does not change when it is
\* recorded, while it is recorded or when its record is dropped, and the block whose
\* record is dropped is in the world.
C8_RoundTrip ==
    [][\A b \in BlockIds :
        /\ b \in Recorded(invisible_list') => get_id(b) = "brick" /\ pos'[b] = pos[b]
        /\ (b \in Recorded(invisible_list) /\ b \notin Recorded(invisible_list')) =>
               /\ pos'[b] = pos[b]
               /\ world_id' = world_id => b \in blocks']_vars

\* C8 witness: bricks B1 and B3 are back in the world while B2, hidden by the same
\* press of S1, still has its record.
C8_Witness ==
    /\ pc = "idle"
    /\ invisible_list = <<<< <<0, "B2">>, 1 >>>>
    /\ {<<0, "B1">>, <<0, "B3">>} \subseteq blocks
    /\ hidden_for[<<0, "B2">>] = INVISIBLE_TIME

(***************************************************************************)
(* Claims about the countdowns (checked under SpecTimers).                 *)
(***************************************************************************)
\* C5: in every reachable state the player's invincibility countdown and every
\* Switch's pressed countdown are >= 0 and never above the default they are started
\* from: the step hooks decrement a countdown only while it is positive, and
\* invincible() and set_pressed_time() are only called with the default.
C5_CountdownsInRange ==
    /\ invincible_time \in 0..INVINCIBLE_TIME
    /\ \A n \in SwitchNames : pressed_time[n] \in 0..PRESSED_TIME

\* C5 witness: the star has been collected and switch S1 pressed, and both countdowns
\* have run down to zero (a brick hidden by S1 still has its record).
C5_Witness ==
    /\ pc = "idle"
    /\ "ST" \notin items
    /\ invincible_time = 0
    /\ pressed_time["S1"] = 0
    /\ <<0, "B2">> \in Recorded(invisible_list)

\* The step that ends a non-paused tick.
TickReturns == pc = "collide" /\ pc' # "collide"

\* C6, as claimed: the invincibility countdown and each Switch's pressed countdown are
\* never greater at the end of a tick than at the end of the previous tick.
C6_NeverGreater ==
    [][TickReturns =>
        /\ invincible_time' <= tick_start.invincible_time
        /\ \A n \in SwitchNames : pressed_time'[n] <= tick_start.pressed_time[n]]_vars

\* C6, amended: a countdown is greater at the end of a tick than at the end of the
\* previous tick only when it was started again during the tick, from the default at
\* most: the invincibility countdown by a star collected in the tick, a Switch's
\* countdown only from zero.
C6_GreaterOnlyWhenRestarted ==
    [][TickReturns =>
        /\ invincible_time' > tick_start.invincible_time =>
               /\ \E i \in tick_start.items \ items' : LevelItems[i] = "star"
               /\ invincible_time' <= INVINCIBLE_TIME
        /\ \A n \in SwitchNames :
               pressed_time'[n] > tick_start.pressed_time[n] =>
                   /\ tick_start.pressed_time[n] = 0
                   /\ pressed_time'[n] <= PRESSED_TIME]_vars

\* C6 witness: the tick in which the star was collected and switch S1 pressed has
\* ended with both countdowns running.
C6_Witness ==
    /\ pc = "idle"
    /\ "ST" \notin items
    /\ invincible_time = INVINCIBLE_TIME - 1
    /\ pressed_time["S1"] = PRESSED_TIME - 1

(***************************************************************************)
(* Claims about the mushroom (checked under SpecMob).                      *)
(***************************************************************************)
\* C9: when a player who is not invincible collides with a Mushroom from a direction
\* other than above, the player's health goes down by exactly 1, the horizontal
\* velocity points away from the mushroom (to the left when the player is on the
\* mushroom's left side, to the right when on its right side) whatever it was before,
\* the vertical velocity is unchanged and the mushroom stays in the world.
C9_SideHitKnocksAway ==
    [][\A m \in MobNames, dir \in Directions \ {"A"} :
        (/\ LevelMobs[m] = "mushroom"
         /\ ~is_invincible(invincible_time)
         /\ PlayerCollideMob(m, dir)) =>
            /\ health' = health - 1
            /\ dir = "L" => velocity'[1] < 0
            /\ dir = "R" => velocity'[1] > 0
            /\ velocity'[2] = velocity[2]
            /\ m \in mobs']_vars

\* C10: when the player lands on a Mushroom from above, the mushroom is removed from
\* the world, the player's health and horizontal velocity are unchanged, and the
\* vertical velocity is set to an upward value: one of the sign of the jump velocity
\* and of the BounceBlock velocity.
C10_StompLaunchesUp ==
    [][\A m \in MobNames :
        (LevelMobs[m] = "mushroom" /\ PlayerCollideMob(m, "A")) =>
            /\ m \notin mobs'
            /\ health' = health
            /\ velocity'[1] = velocity[1]
            /\ velocity'[2] < 0
            /\ MARIO_VY < 0
            /\ BOUNCE_VY < 0]_vars

(***************************************************************************)
(* Claims about the star and the items (checked under SpecGoal and         *)
(* SpecTimers).                                                            *)
(***************************************************************************)
\* A step taken by a collision handler inside world.step.
HandlerStep == pc = "collide" /\ pc' \in {"collide", "loaded"}

\* C11: collecting a star sets the invincibility countdown to its default (1000 in
\* the source), and while the countdown is > 0 no contact with a mob, a Mushroom from
\* any direction included, lowers the player's health, however often it happens; a
\* positive health change (the flag's bonus) is still applied.
C11_InvincibleKeepsHealth ==
    [][HandlerStep =>
       /\ \A i \in Stars : PlayerCollideItem(i) => invincible_time' = INVINCIBLE_TIME
       /\ \A m \in MobNames, dir \in Directions :
              (is_invincible(invincible_time) /\ PlayerCollideMob(m, dir)) => health' = health
       /\ \A b \in BlockIds :
              (/\ get_id(b) = "flag"
               /\ is_invincible(invincible_time)
               /\ PlayerCollideBlock(b, "A")) => health' = health + 1]_vars

\* C11 witness: the star has been collected and the invincible player has run into
\* mushroom M1 from the side (the mushroom has turned and was removed by the handler)
\* with the health still at its configured value.
C11_Witness ==
    /\ pc = "collide"
    /\ "ST" \notin items
    /\ is_invincible(invincible_time)
    /\ "M1" \notin mobs
    /\ tempo["M1"] = 0 - MUSHROOM_TEMPO
    /\ health = ConfigHealth

\* C12: the player-item handler, for every item kind, collects the item into the
\* player (a coin raises the score, a star starts the invincibility countdown),
\* removes the item from the world's item set and returns false; collecting a coin
\* raises the score by exactly 1 and changes no other field of the player.
C12_ItemCollected ==
    [][\A i \in ItemNames :
        (HandlerStep /\ PlayerCollideItem(i)) =>
            /\ items' = items \ {i}
            /\ last_return' = "False"
            /\ LevelItems[i] = "star" => invincible_time' = INVINCIBLE_TIME /\ score' = score
            /\ LevelItems[i] = "coin" =>
                   /\ score' = score + 1
                   /\ health' = health
                   /\ invincible_time' = invincible_time
                   /\ velocity' = velocity]_vars

\* C12 witness: the coin has just been collected without the star: score 1, the player
\* not invincible, the star still in the world.
C12_Witness ==
    /\ pc = "collide"
    /\ items = {"ST"}
    /\ score = 1
    /\ invincible_time = 0

(***************************************************************************)
(* Claims about the contacts of mobs (checked under SpecMobs and           *)
(* SpecGoal).                                                              *)
(***************************************************************************)
\* C13: the mob-mob handler always returns false; whenever at least one of the two
\* mobs is a fireball both mobs leave the world and neither is back before the tick
\* has ended; when neither is a fireball, neither is removed.
C13_FireballRemovesBoth ==
    [][/\ \A mob1, mob2 \in MobNames, dir \in Directions :
              (HandlerStep /\ MobCollideMob(mob1, mob2, dir)) =>
                  /\ last_return' = "False"
                  /\ IF LevelMobs[mob1] = "fireball" \/ LevelMobs[mob2] = "fireball"
                     THEN mobs' = mobs \ {mob1, mob2}
                     ELSE mobs' = mobs
       /\ (pc = "collide" /\ world_id' = world_id) => mobs' \subseteq mobs]_vars

\* C13 witness: a tick has ended after fireball FB1 met mushroom M1 (a mushroom leaves
\* the world only with a fireball): both are gone, the other two mobs are there.
C13_Witness ==
    /\ pc = "idle"
    /\ mobs = {"M2", "FB2"}

\* C14: within one tick, once a mob has been removed from the world by a collision
\* handler, it is not removed again and no method is called on it: no mob is ever
\* used after its removal.
C14_NoUseAfterRemoval == stale_use = {}

\* C15: the player-mob handler always returns true; whenever the player is invincible
\* after the mob's on_hit has run, the mob is absent from the world afterwards, for
\* every mob kind and contact direction; when the player is not invincible the handler
\* itself removes nothing: no other mob, no block and no item leaves the world, and a
\* mushroom hit from the side stays.
C15_InvinciblePlayerRemovesMob ==
    [][\A m \in MobNames, dir \in Directions :
        (HandlerStep /\ PlayerCollideMob(m, dir)) =>
            /\ last_return' = "True"
            /\ is_invincible(invincible_time') => m \notin mobs'
            /\ ~is_invincible(invincible_time') =>
                   /\ mobs \ {m} \subseteq mobs'
                   /\ blocks' = blocks
                   /\ items' = items
                   /\ (LevelMobs[m] = "mushroom" /\ dir # "A") => m \in mobs']_vars

\* C15 witness: the invincible player has touched the fireball and then the mushroom
\* from the side (the mushroom has turned): neither is in the world any more.
C15_Witness ==
    /\ pc = "collide"
    /\ is_invincible(invincible_time)
    /\ "ST" \notin items
    /\ mobs \cap MobSample = {}
    /\ tempo["M1"] = 0 - MUSHROOM_TEMPO

(***************************************************************************)
(* Claims about the contacts with blocks (checked under SpecFire,          *)
(* SpecSwitch and SpecGoal).                                               *)
(***************************************************************************)
\* C16: for a block that has a record in the invisible-block list, the player-block
\* and the mob-block handler return false and change nothing: no health, velocity,
\* tempo or switch state changes, no entity is removed and the invisible-block list is
\* unchanged.
C16_RecordedBlockSkipped ==
    [][\A b \in BlockIds, dir \in Directions :
        (/\ HandlerStep
         /\ b \in Recorded(invisible_list)
         /\ \/ PlayerCollideHiddenBlock(b, dir)
            \/ \E m \in MobNames : MobCollideHiddenBlock(m, b, dir)) =>
            /\ last_return' = "False"
            /\ UNCHANGED <<blocks, mobs, items, invisible_list, pressed_time, tempo, health,
                           velocity>>]_vars

\* C17: player and switch: an Above contact on an unpressed Switch sets its pressed
\* countdown to the default (1000 in the source); a contact that is not Above on an
\* unpressed Switch leaves it unpressed; the handler returns false exactly when the
\* Switch is pressed after the contact was processed, and true otherwise.
C17_SwitchContact ==
    [][\A b \in BlockIds, dir \in Directions :
        (HandlerStep /\ get_id(b) = "switch" /\ PlayerCollideBlock(b, dir)) =>
            /\ (~is_pressed(pressed_time[b[2]]) /\ dir = "A") =>
                   pressed_time'[b[2]] = PRESSED_TIME
            /\ (~is_pressed(pressed_time[b[2]]) /\ dir # "A") =>
                   ~is_pressed(pressed_time'[b[2]])
            /\ last_return' = IF is_pressed(pressed_time'[b[2]]) THEN "False" ELSE "True"]_vars

\* C17 witness: switch S2 has just been pressed, one tick after switch S1.
C17_Witness ==
    /\ pc = "collide"
    /\ pressed_time["S2"] = PRESSED_TIME
    /\ pressed_time["S1"] = PRESSED_TIME - 1

\* C18: a contact of a mob with a Switch that is pressed is no interaction: the handler
\* returns false and has no side effect for every mob kind (a fireball is not removed,
\* a mushroom does not turn).
C18_PressedSwitchLetsMobsPass ==
    [][\A m \in MobNames, b \in BlockIds, dir \in Directions :
        (/\ HandlerStep
         /\ get_id(b) = "switch"
         /\ is_pressed(pressed_time[b[2]])
         /\ MobCollideBlock(m, b, dir)) =>
            /\ last_return' = "False"
            /\ UNCHANGED <<blocks, mobs, items, invisible_list, pressed_time, tempo, health,
                           velocity>>]_vars

\* C18 witness: switch S1 was pressed in an earlier tick, the fireball and the mushroom
\* are in the world, the mushroom has not turned, and the last handler returned false.
C18_Witness ==
    /\ pc = "collide"
    /\ is_pressed(pressed_time["S1"])
    /\ pressed_time["S1"] < PRESSED_TIME
    /\ MobSample \subseteq mobs
    /\ tempo["M1"] = MUSHROOM_TEMPO
    /\ last_return = "False"

\* C19: a contact of a fireball with a block that is neither invisible nor a pressed
\* Switch: the fireball is removed from the world; the block is removed only if its
\* kind is "brick"; a brick removed this way is not put in the invisible-block list and
\* never reappears (a block that is neither in the world nor recorded stays so); the
\* handler returns true.
C19_FireballBreaksBrick ==
    [][/\ \A m \in MobNames, b \in BlockIds, dir \in Directions :
              (/\ HandlerStep
               /\ LevelMobs[m] = "fireball"
               /\ b \notin Recorded(invisible_list)
               /\ ~(get_id(b) = "switch" /\ is_pressed(pressed_time[b[2]]))
               /\ MobCollideBlock(m, b, dir)) =>
                  /\ m \notin mobs'
                  /\ blocks' = IF get_id(b) = "brick" THEN blocks \ {b} ELSE blocks
                  /\ invisible_list' = invisible_list
                  /\ last_return' = "True"
       /\ \A b \in BlockIds :
              (b \notin blocks /\ b \notin Recorded(invisible_list)) =>
                  (b \notin blocks' /\ b \notin Recorded(invisible_list'))]_vars

\* C19 witness: a tick has ended after the fireball hit brick B1: both are gone and
\* no block has a record.
C19_Witness ==
    /\ pc = "idle"
    /\ "FB1" \notin mobs
    /\ <<0, "B1">> \notin blocks
    /\ invisible_list = <<>>

\* C20: player and flag: the player's health is raised by 1 only when the contact
\* direction is Above; for every contact direction the goal protocol is run with the
\* trigger key "goal" (the game is paused for the high-score prompt; from level1, whose
\* section declares goal : level2, level2 is loaded; from level2, which declares no
\* goal, exit is requested and nothing is loaded), the handler returns true, and the
\* flag is not removed from its world.
C20_FlagContact ==
    [][\A b \in BlockIds, dir \in Directions :
        (HandlerStep /\ get_id(b) = "flag" /\ PlayerCollideBlock(b, dir)) =>
            /\ health' = IF dir = "A" THEN health + 1 ELSE health
            /\ last_return' = "True"
            /\ pause'
            /\ level = "level1" =>
                   level' = "level2" /\ world_id' = world_id + 1 /\ exit' = exit
            /\ level = "level2" =>
                   level' = level /\ world_id' = world_id /\ exit'
            /\ world_id' = world_id => blocks' = blocks]_vars

\* C20 witness: the flag of level1 has been hit from above: level2 is loaded inside
\* the step, the player has one health more and the game is paused.
C20_Witness ==
    /\ pc = "loaded"
    /\ level = "level2"
    /\ world_id = 1
    /\ health = ConfigHealth + 1
    /\ pause

(***************************************************************************)
(* Claims about the tunnels, the duck key and the goal protocol (checked   *)
(* under SpecTunnel).                                                      *)
(***************************************************************************)
\* C21: tunnel attachment: in every reachable state the player is on-tunnel exactly
\* when its tunnel reference names a tunnel block that it is still in contact with.
\* (The player is attached only by an Above contact and detached by the separation;
\* a level load by the flag, however, ends every contact and keeps the attachment.)
C21_AttachedOnlyInContact ==
    on_tunnel <=> /\ tunnel # {}
                  /\ tunnel \subseteq (touching \cap TunnelBlocks)

\* A step that runs the goal protocol with the trigger key: a contact of the player
\* with a flag ("goal"), or the duck key while the player is on a tunnel ("tunnel").
GoalStep(key) ==
    \/ /\ key = "goal"
       /\ HandlerStep
       /\ \E b \in FlagBlocks, dir \in Directions : PlayerCollideBlock(b, dir)
    \/ /\ key = "tunnel"
       /\ pc = "idle"
       /\ on_tunnel
       /\ Duck

\* The goal protocol has replaced the world by that of the level and kept the Player
\* (a flag touched from above has given its bonus of 1 health).
LoadedWithSamePlayer(key, new_level) ==
    /\ level' = new_level
    /\ world_id' = world_id + 1
    /\ blocks' = LoadedBlocks(world_id + 1)
    /\ score' = score
    /\ invincible_time' = invincible_time
    /\ health' = health \/ (key = "goal" /\ health' = health + 1)
    /\ exit' = exit

\* The goal protocol has requested the exit and loaded nothing.
ExitWithoutLoad ==
    /\ exit'
    /\ level' = level
    /\ world_id' = world_id
    /\ blocks' = blocks
    /\ mobs' = mobs
    /\ items' = items

\* C22: duck: when the player is not attached to a tunnel the duck command changes
\* nothing; when attached it runs the goal protocol with the key "tunnel" (prompt
\* asked for; the level declared under "tunnel" loaded, or exit requested when there
\* is no such declaration or no such level file) and leaves the player detached: not
\* on-tunnel, tunnel reference null.
C22_Duck ==
    [][(pc = "idle" /\ Duck) =>
         IF ~on_tunnel THEN UNCHANGED vars
         ELSE LET lookup == goal_lookup(config_file_content, level, "tunnel") IN
              /\ ~on_tunnel'
              /\ tunnel' = {}
              /\ pause'
              /\ IF lookup.found /\ lookup.value \in LevelFiles
                 THEN LoadedWithSamePlayer("tunnel", lookup.value)
                 ELSE ExitWithoutLoad]_vars

\* C22 witness: the player has ducked on the tunnel of level1: the bonus level is
\* loaded, the game waits for the prompt and the player is detached.
C22_Witness ==
    /\ pc = "idle"
    /\ level = "bonus"
    /\ items = ItemNames
    /\ pause
    /\ ~on_tunnel
    /\ tunnel = {}

C28_MissingLevelFileIsFatal ==
    /\ [][\A key \in {"goal", "tunnel"} :
            LET lookup == goal_lookup(config_file_content, level, key) IN
            (/\ GoalStep(key)
             /\ lookup.found
             /\ lookup.value # "END"
             /\ lookup.value \notin LevelFiles) =>
                /\ ExitWithoutLoad
                /\ pos' = pos]_vars
    /\ [][(exit /\ pc \in {"collide", "loaded"}) => pc' # "idle"]_vars
    /\ [][(exit /\ pc = "idle" /\ pause /\ StepPaused) => pc' = "exited"]_vars
    /\ [][(exit /\ pc = "idle" /\ ~pause /\ pc' # "idle") => pc' = "collide"]_vars

\* C28 witness: in the bonus level, whose section declares tunnel : level9, the
\* player has ducked on the tunnel: exit is requested outside a tick, and the bonus
\* level is still the active one.
C28_Witness ==
    /\ pc = "idle"
    /\ level = "bonus"
    /\ world_id = 1
    /\ blocks = LoadedBlocks(1)
    /\ exit
    /\ ~on_tunnel

(***************************************************************************)
(* Claims about the paused game (checked under SpecPause).                 *)
(***************************************************************************)
\* The countdowns and the entity sets of the world.
timed_state == <<invincible_time, pressed_time, invisible_list, blocks, mobs, items>>

\* C24 as stated: while the game is paused no step changes the countdowns, the
\* records or the entity sets, and the tick callback is always scheduled again.
C24_PausedAlwaysRescheduled ==
    [][(pc = "idle" /\ pause) => (UNCHANGED timed_state /\ pc' = "idle")]_vars

\* C24: while the simulation is paused, every tick callback skips the world step and
\* the invisible-block processing: the invincibility countdown, the Switch
\* countdowns, the invisible-record timers and the world's entity sets are unchanged
\* by the callback, and, unless exit has been requested, the next tick callback is
\* scheduled (with exit requested the callback ends the application); resume clears
\* the pause flag only, so that stepping continues from the same state.
C24_PausedTick ==
    /\ [][(pc = "idle" /\ pause) =>
            /\ UNCHANGED timed_state
            /\ pc' # "collide"
            /\ pc' = "exited" => exit]_vars
    /\ [][(pc = "idle" /\ pause /\ StepPaused) =>
            pc' = IF exit THEN "exited" ELSE "idle"]_vars
    /\ [][(pc = "idle" /\ pause /\ ~pause') =>
            UNCHANGED <<pc, timed_state, pos, health, score, velocity, exit, level>>]_vars

\* C24 witness: the game is paused between two ticks while the invincibility
\* countdown, the countdown of switch S1 and the timers of the hidden bricks run.
C24_Witness ==
    /\ pc = "idle"
    /\ pause
    /\ ~exit
    /\ invincible_time > 0
    /\ pressed_time["S1"] > 0
    /\ invisible_list # <<>>

(***************************************************************************)
(* Claims about the worlds (checked under SpecWorlds).                     *)
(***************************************************************************)
\* C25: every block belongs to one world at a time: after a level load or reset has
\* replaced the world, every block that is in the active world, or is inserted into
\* it later, was created for that world.
C25_BlocksOfActiveWorld == \A b \in blocks : b[1] = world_id

(***************************************************************************)
(* Claims about the player's velocity (checked under SpecBounce).          *)
(***************************************************************************)
\* C26: jump takes effect only when the player's vertical velocity is exactly zero:
\* then the vertical velocity becomes -200 and the horizontal velocity is unchanged;
\* when the vertical velocity is not zero the jump command leaves the velocity
\* unchanged.
C26_Jump ==
    [][(pc = "idle" /\ Jump) =>
         velocity' = IF velocity[2] = 0 THEN <<velocity[1], 0 - 200>> ELSE velocity]_vars

\* C26 witness: the player has jumped while moving sideways.
C26_Witness ==
    /\ pc = "idle"
    /\ velocity[1] # 0
    /\ velocity[2] = 0 - 200

\* C29: BounceBlock.on_hit sets the player's vertical velocity to -300 and keeps the
\* horizontal velocity when the contact direction is Above; for every other contact
\* direction the player's velocity is unchanged; the player-block handler returns
\* true in both cases.
C29_BounceBlock ==
    [][\A b \in BounceBlocks, dir \in Directions :
         (HandlerStep /\ PlayerCollideBlock(b, dir)) =>
            /\ velocity' = IF dir = "A" THEN <<velocity[1], 0 - 300>> ELSE velocity
            /\ last_return' = "True"]_vars

\* C29 witness: the player, moving sideways, has landed on the bounce block.
C29_Witness ==
    /\ pc = "collide"
    /\ velocity[1] # 0
    /\ velocity[2] = 0 - 300
    /\ last_return = "True"

(***************************************************************************)
(* Claims about the start of the application (checked under SpecConfig).   *)
(***************************************************************************)
\* The chosen file declares the key / declares it with a text that int() rejects.
Declares(file, k) == \E i \in DOMAIN file.lines : file.lines[i].key = k
DeclaresBadInt(file, k) ==
    \E i \in DOMAIN file.lines :
        file.lines[i].key = k /\ file.lines[i].value \notin DecimalTexts

\* C27: configuration loading: if the configuration file is missing, a value cannot
\* be parsed with its declared type, or any required key (gravity, start, x, y, mass,
\* health, max_velocity) is absent, a configuration error is reported and the
\* application exits before any world is built; with all required keys present and
\* parseable no error is reported (and the world of the start level is built).
C27_ConfigLoading ==
    [][(pc = "boot" /\ LoadConfig) =>
         IF \/ ~config_file.exists
            \/ \E k \in {"gravity", "x", "y", "mass", "health", "max_velocity"} :
                   DeclaresBadInt(config_file, k)
            \/ \E k \in {"gravity", "start", "x", "y", "mass", "health", "max_velocity"} :
                   ~Declares(config_file, k)
         THEN /\ config_error' # "none"
              /\ pc' = "exited"
              /\ blocks' = {} /\ mobs' = {} /\ items' = {}
         ELSE /\ config_error' = "none"
              /\ pc' = "idle"
              /\ blocks' = LoadedBlocks(0)]_vars

\* C27 witness: a file that declares every required key, one of them with a text that
\* is not a number, has ended the application before a world was built.
C27_Witness ==
    /\ pc = "exited"
    /\ config_error = "cannot be parsed"
    /\ \A k \in {"gravity", "start", "x", "y", "mass", "health", "max_velocity"} :
           Declares(config_file, k)
    /\ blocks = {}

(***************************************************************************)
(* Claims about the mushrooms (checked under SpecMobs).                    *)
(***************************************************************************)
\* C30: Mushroom.collide negates the mushroom's tempo exactly when the contact
\* direction is Left or Right, keeps its magnitude, and leaves the tempo unchanged
\* for Above and Below (here for the contacts of a mushroom with the ground); in a
\* mob-mob side contact between two mushrooms each of the two flips exactly once.
C30_MushroomCollide ==
    [][HandlerStep =>
        /\ \A m \in Mushrooms, b \in BrickBases, dir \in Directions :
               MobCollideBlock(m, b, dir) =>
                  /\ tempo'[m] = IF dir \in {"L", "R"} THEN 0 - tempo[m] ELSE tempo[m]
                  /\ \A o \in Mushrooms \ {m} : tempo'[o] = tempo[o]
        /\ \A mob1, mob2 \in Mushrooms, dir \in Directions :
               MobCollideMob(mob1, mob2, dir) =>
                  IF dir \in {"L", "R"}
                  THEN tempo'[mob1] = 0 - tempo[mob1] /\ tempo'[mob2] = 0 - tempo[mob2]
                  ELSE tempo' = tempo
        /\ \A m \in Mushrooms : Abs(tempo'[m]) = Abs(tempo[m])]_vars

\* C30 witness: two mushrooms that walked the same way have met side by side, and
\* both have turned.
C30_Witness ==
    /\ pc = "collide"
    /\ {"M1", "M2"} \subseteq mobs
    /\ tempo["M1"] = 0 - 100
    /\ tempo["M2"] = 0 - 100
    /\ last_return = "False"

(***************************************************************************)
(* Claims about the score (checked under SpecScore).                       *)
(***************************************************************************)
\* The end of a tick in which the player is dead and the restart is accepted:
\* reset_level makes a new Player and loads the level again.
DeathRestart ==
    /\ pc \in {"collide", "loaded"}
    /\ is_dead(health)
    /\ pc' \in {"idle", "exited"}
    /\ world_id' = world_id + 1

\* C31 as stated: over any sequence of ticks, collisions and level transitions
\* triggered by a goal the score never decreases.
C31_ScoreNeverDecreases == [][score' >= score]_vars

\* C31: the score is a non-negative counter that never decreases over ticks,
\* collisions and level transitions triggered by a goal, except at the end of a tick
\* in which the player is dead and the level is restarted: the new Player starts
\* with score 0.
C31_ScoreMonotonic ==
    /\ [](score >= 0)
    /\ [][IF DeathRestart THEN score' = 0 ELSE score' >= score]_vars

\* C31 witness: the score earned in level1 is shown in level2, loaded by the flag.
C31_Witness ==
    /\ pc = "loaded"
    /\ level = "level2"
    /\ items = ItemNames
    /\ score > 0

(***************************************************************************)
(* Claims about the goal lookup (checked under SpecLookup).                *)
(***************************************************************************)
\* The lines of the text that contain the marker of the level, and the declarations
\* of the key at or after line m.
MarkerAt(content, lvl) == {i \in DOMAIN content : content[i].marker = lvl}
DeclaredFrom(content, m, key) ==
    {i \in DOMAIN content : i >= m /\ content[i].marker = "" /\ content[i].key = key}
First(S) == CHOOSE i \in S : \A j \in S : i <= j

\* C32: goal lookup scope: the level requested is the value of the first line whose
\* key equals the trigger key at or after the first configuration line that
\* contains the marker of the active level; a declaration that occurs only before
\* the marker is never used, and if no line contains the marker the lookup ends as
\* not found (exit requested, nothing loaded).
C32_LookupScope ==
    [][GoalStep("goal") =>
         LET content == config_file.lines
             markers == MarkerAt(content, level)
             decls == IF markers = {} THEN {}
                      ELSE DeclaredFrom(content, First(markers), "goal")
         IN  IF decls = {} THEN ExitWithoutLoad
             ELSE LET value == content[First(decls)].value IN
                  IF value # "END" /\ value \in LevelFiles
                  THEN level' = value /\ world_id' = world_id + 1
                  ELSE ExitWithoutLoad]_vars

\* C32 witness: the text declares goal : bonus before the marker of level1 and
\* goal : level2 after it, and the flag of level1 has loaded level2.
C32_Witness ==
    /\ pc = "loaded"
    /\ level = "level2"
    /\ found_value(config_file.lines, "start").value = "level1"
    /\ \E i, m, j \in DOMAIN config_file.lines :
          /\ i < m /\ m < j
          /\ config_file.lines[i] = DeclLine("goal", "bonus")
          /\ config_file.lines[m] = MarkerLine("level1")
          /\ config_file.lines[j] = DeclLine("goal", "level2")

(***************************************************************************)
(* Claims about the player and the mobs (checked under SpecGoal).          *)
(***************************************************************************)
\* C33: each mob is removed from the world at most once per collision: a contact of
\* the player with a mushroom, an invincible player landing on it from Above
\* included, never removes the mushroom a second time.
C33_MushroomRemovedOnce ==
    [][\A m \in Mushrooms, dir \in Directions :
         (HandlerStep /\ PlayerCollideMob(m, dir)) =>
            (m \in stale_use' => m \in stale_use)]_vars

(***************************************************************************)
(* Claims about the end of the application (checked under SpecExit).       *)
(***************************************************************************)
\* C34: once exit has been requested (by the exit command, a goal lookup failure, a
\* missing level file, winning with END or declining the restart after death), the
\* application terminates in the tick callback that is running or, when none is,
\* in the next one, also when the simulation is paused; the callback is never
\* scheduled after that, and the request is never withdrawn.
C34_ExitTerminates ==
    /\ [][(exit /\ pc \in {"collide", "loaded"}) => pc' \in {"collide", "loaded", "exited"}]_vars
    /\ [][(exit /\ pc = "idle" /\ pc' # "idle") =>
            pc' = IF pause THEN "exited" ELSE "collide"]_vars
    /\ [][exit => exit']_vars
    /\ [][pc = "exited" => pc' = "exited"]_vars
    /\ [](pc = "exited" => exit)
    /\ (exit ~> pc = "exited")

\* C34 witness: the application has ended while paused for the high-score prompt of
\* a goal, with a living player.
C34_Witness ==
    /\ pc = "exited"
    /\ exit
    /\ pause
    /\ health > 0

\* C35: the simulation never continues stepping with a dead player.  The player is
\* alive whenever a tick callback starts, and a non-paused tick that ends with a dead
\* player either requests the exit or reloads the current level with a new Player
\* (health = max health, score 0, invincibility countdown 0, not on a tunnel).
C35_DeadPlayerNeverSteps ==
    /\ [](pc = "idle" => ~is_dead(health))
    /\ [][(pc \in {"collide", "loaded"} /\ is_dead(health) /\ pc' \in {"idle", "exited"}) =>
            \/ exit'
            \/ /\ level' = level
               /\ world_id' = world_id + 1
               /\ blocks' = LoadedBlocks(world_id')
               /\ mobs' = MobNames
               /\ items' = ItemNames
               /\ health' = ConfigHealth
               /\ score' = 0
               /\ invincible_time' = 0
               /\ ~on_tunnel']_vars

\* C35 witness: the player died in the start level, which has been reloaded with a
\* new Player (the goals load another level, so only the restart reloads this one).
C35_Witness ==
    /\ pc = "idle"
    /\ level = StartLevel
    /\ world_id = 1
    /\ health = ConfigHealth
    /\ score = 0
    /\ ~on_tunnel
    /\ items = ItemNames

\* C36: while a pausing window (the high-score prompt, the leaderboard or the level
\* editor) is open, the simulation stays paused and no world step begins, whatever the
\* order in which the windows were opened and closed.
C36_PausedWhileDialogOpen ==
    /\ [](dialogs # {} => pause)
    /\ [][dialogs # {} => ~(pc = "idle" /\ pc' = "collide")]_vars

====
